---- MODULE Spec2Model ----
(***************************************************************************)
(* Allowance ledger and drink approval workflow of the dinner backend.     *)
(*                                                                         *)
(* The store is modelled as four tables: users (main.models.User, keyed by *)
(* the person), drink_types (DrinkType, keyed by name), orders             *)
(* (DrinkTransaction, primary key = index) and meal_logs (MealLog, a       *)
(* multiset of rows).  Time is counted in whole days; day 0 is a Monday,   *)
(* so weekday(t) = t % 7 follows Python's datetime.weekday() (0 = Monday,  *)
(* 4 = Friday, 5 = Saturday).  Timestamps that no handler reads back       *)
(* (MealLog.consumed_at, DrinkTransaction.served_at, the value of          *)
(* approved_at) are kept only as null / set.                               *)
(*                                                                         *)
(* Spec       : all ledger handlers, each run to completion (one action    *)
(*              per handler), on well-formed requests of registered people.*)
(* SpecMeals  : the clock, consume_lunch and consume_dinner, with every    *)
(*              combination of the day flags and malformed requests.       *)
(* SpecOrders : the clock, consume_drink, approve_order and deny_order,    *)
(*              with malformed requests.                                   *)
(* SpecConc   : two requests served at the same time.  No handler opens a  *)
(*              transaction or locks a row, so under Django's autocommit   *)
(*              every ORM call is a statement of its own; a handler is     *)
(*              split at its ORM calls and the two requests interleave at  *)
(*              those points.  Model.save() writes every column of the     *)
(*              instance the request holds.                                *)
(***************************************************************************)
EXTENDS Integers, Naturals, Sequences, FiniteSets, Bags, TLC

\* ------------------------------------------------------------------ bounds
MaxNow    == 8      \* last day the clock reaches
MaxOrders == 2      \* rows the DrinkTransaction table may hold
MaxLogs   == 3      \* rows the MealLog table may hold
MaxConversations == 1   \* rows the Conversation table may hold
MaxMessages == 4        \* ChatMessage rows one conversation may hold

\* ------------------------------------------------------- program constants
WEEKLY_LUNCHES == 3
WEEKLY_DINNERS == 3
WEEKLY_DRINKS  == 15
RESET_DAYS     == 7
FRIDAY         == 4
SATURDAY       == 5

\* ------------------------------------------------------------ input domains
Persons   == {"p1", "p2"}
Stranger  == "stranger"          \* a well-formed name that is not registered
Blank     == ""                  \* a missing / empty request field
Drinks    == {"Cola"}
NoDrink   == "Water"             \* a drink name that is not in the catalog
Who       == Persons \cup {Stranger, Blank}
Quantity  == {1, 2, 3}           \* quantities a well-formed request asks for
NULL      == "null"
STAMP     == "set"               \* a timestamp taken from timezone.now()

\* counters and stock the registry may hold when the run starts
InitDrinksRemaining == 5
InitStock == {3, 10}

\* the requests served at the same time in SpecConc
Workers == {"w1", "w2"}

VARIABLES users, drink_types, orders, meal_logs, now, response, inflight,
          conversations, reply, completion, lookup

vars == <<users, drink_types, orders, meal_logs, now, response, inflight,
          conversations, reply, completion, lookup>>

\* ------------------------------------------------------------------ helpers
weekday(t) == t % 7

\* the HTTP response of the request handled by the last step: the status
\* code, the error text ("" on success) and the number the text reports
Resp(st, err, amt) == [status |-> st, error |-> err, amount |-> amt]

NoResponse == Resp(0, "", 0)

REQUIRED == "first_name, last_name and gender are required"
NOT_IN_REGISTRY == "User was not found in registry"
ONLY_FRIDAY == "You are only registered for Friday lunch"
ONLY_SATURDAY == "You are only registered for Saturday lunch"
ONLY_FRIDAY_AND_SATURDAY == "You are only registered for Friday and Saturday lunch"
NO_LUNCHES == "No lunches remaining"
NO_DINNERS == "No dinners remaining"
INSUFFICIENT_STOCK == "Insufficient stock. Only N available"
INSUFFICIENT_ALLOWANCE == "Insufficient allowance. Only N drinks remaining"
USER_ONLY_HAS == "User only has N drinks remaining"
ONLY_AVAILABLE == "Only N available"
NOT_FOUND == "Not Found"

\* mutant: the reset fires on the seventh day already (>= for >)
reset_weekly_allowance_ge(u, t) ==
    IF t - u.week_start >= RESET_DAYS
    THEN [u EXCEPT !.lunches_remaining = WEEKLY_LUNCHES,
                   !.dinners_remaining = WEEKLY_DINNERS,
                   !.drinks_remaining  = WEEKLY_DRINKS,
                   !.week_start        = t]
    ELSE u

\* mutant: every call resets, whatever the age of week_start
reset_weekly_allowance_always(u, t) ==
    [u EXCEPT !.lunches_remaining = WEEKLY_LUNCHES,
              !.dinners_remaining = WEEKLY_DINNERS,
              !.drinks_remaining  = WEEKLY_DRINKS,
              !.week_start        = t]

\* mutant: the reset restores the counters but keeps the old week_start
reset_weekly_allowance_keeps_week_start(u, t) ==
    IF t - u.week_start > RESET_DAYS
    THEN [u EXCEPT !.lunches_remaining = WEEKLY_LUNCHES,
                   !.dinners_remaining = WEEKLY_DINNERS,
                   !.drinks_remaining  = WEEKLY_DRINKS]
    ELSE u

\* models.py User.reset_weekly_allowance, on a model instance u at time t
reset_weekly_allowance(u, t) ==
    IF t - u.week_start > RESET_DAYS
    THEN [u EXCEPT !.lunches_remaining = WEEKLY_LUNCHES,
                   !.dinners_remaining = WEEKLY_DINNERS,
                   !.drinks_remaining  = WEEKLY_DRINKS,
                   !.week_start        = t]
    ELSE u

\* mutant: an unknown person is reported like a validation failure
UserNotFound_as_validation == Resp(400, REQUIRED, 0)

\* views.py: the response to a request naming a person not in the registry
UserNotFound == Resp(404, NOT_IN_REGISTRY, 0)

\* views.py verify_user_exists: is the named person in the registry
verify_user_exists(who) == who \in DOMAIN users

\* mutant: the Saturday-only branch is missing
LunchDayError_no_saturday_check(u, day) ==
    IF u.has_friday_lunch /\ day # FRIDAY THEN ONLY_FRIDAY ELSE ""

\* mutant: a person without day flags is held to Friday and Saturday
LunchDayError_flags_required(u, day) ==
    IF u.has_friday_lunch /\ day # FRIDAY THEN ONLY_FRIDAY
    ELSE IF u.has_saturday_lunch /\ ~u.has_friday_lunch /\ day # SATURDAY THEN ONLY_SATURDAY
    ELSE IF ~u.has_friday_lunch /\ ~u.has_saturday_lunch /\ day \notin {FRIDAY, SATURDAY}
         THEN ONLY_FRIDAY_AND_SATURDAY
    ELSE ""

\* views.py consume_lunch, day-of-week restriction: the error text of the
\* 403 response, or "" when the day is allowed
LunchDayError(u, day) ==
    LET is_friday   == day = FRIDAY
        is_saturday == day = SATURDAY
    IN  IF ~(u.has_friday_lunch \/ u.has_saturday_lunch) THEN ""
        ELSE IF u.has_friday_lunch /\ ~is_friday
             THEN ONLY_FRIDAY
        ELSE IF u.has_saturday_lunch /\ ~u.has_friday_lunch /\ ~is_saturday
             THEN ONLY_SATURDAY
        ELSE IF u.has_friday_lunch /\ u.has_saturday_lunch
                /\ ~(is_friday \/ is_saturday)
             THEN ONLY_FRIDAY_AND_SATURDAY
        ELSE ""

\* mutant: only a negative counter is refused (< for <=)
NoLunchesRemaining_negative_only(u) == u.lunches_remaining < 0

\* views.py consume_lunch: `if user.lunches_remaining <= 0`
NoLunchesRemaining(u) == u.lunches_remaining <= 0

\* views.py consume_dinner: `if user.dinners_remaining <= 0`
NoDinnersRemaining(u) == u.dinners_remaining <= 0

\* a new MealLog row
MealLog(who, kind) == [user |-> who, meal_type |-> kind]

\* mutant: a served meal is logged twice
CreateMealLog_twice(logs, who, kind) ==
    logs (+) SetToBag({MealLog(who, kind)}) (+) SetToBag({MealLog(who, kind)})

\* MealLog.objects.create(...)
CreateMealLog(logs, who, kind) == logs (+) SetToBag({MealLog(who, kind)})

\* a new DrinkTransaction row: status defaults to pending, approved_at to null
DrinkTransaction(who, drink, quantity, serving_point) ==
    [user |-> who, drink_type |-> drink, quantity |-> quantity,
     serving_point |-> serving_point, status |-> "pending", approved_at |-> NULL]

\* mutant: the lookup forgets the status="pending" filter
PendingOrder_any_status(order_id) == order_id \in DOMAIN orders

\* get_object_or_404(DrinkTransaction, id=order_id, status="pending") finds a row
PendingOrder(order_id) ==
    order_id \in DOMAIN orders /\ orders[order_id].status = "pending"

\* mutant: the allowance is only checked to be positive, as for a meal
ApprovalError_positive_only(user, drink_type, order) ==
    IF user.drinks_remaining <= 0
    THEN Resp(400, USER_ONLY_HAS, user.drinks_remaining)
    ELSE IF drink_type.available_quantity < order.quantity
    THEN Resp(400, ONLY_AVAILABLE, drink_type.available_quantity)
    ELSE NoResponse

\* mutant: the stock is not checked again at approval time
ApprovalError_no_stock_check(user, drink_type, order) ==
    IF user.drinks_remaining < order.quantity
    THEN Resp(400, USER_ONLY_HAS, user.drinks_remaining)
    ELSE NoResponse

\* admin_views.py approve_order, re-validation at approval time: the 400
\* response, or NoResponse when both checks pass
ApprovalError(user, drink_type, order) ==
    IF user.drinks_remaining < order.quantity
    THEN Resp(400, USER_ONLY_HAS, user.drinks_remaining)
    ELSE IF drink_type.available_quantity < order.quantity
    THEN Resp(400, ONLY_AVAILABLE, drink_type.available_quantity)
    ELSE NoResponse

\* ------------------------------------------------------------ the chatbot
\* texts are sequences of characters
Whitespace == {" ", "\t", "\n"}

\* message texts a request may carry: none, blanks only, a word in blanks
Texts == {<< >>, <<" ", "\t">>, <<" ", "h", "i", " ">>}

\* client session keys and admin accounts; NULL is none
Sessions == {"s1", "s2"}
Admins   == {"a1", "a2"}

DEFAULT_TITLE == <<"N", "e", "w">>      \* "New Conversation"
LLM_TITLE     == <<"T">>                \* a title returned by the provider
LLM_REPLY     == <<"o", "k">>           \* a reply returned by the provider
SNIPPET_LEN   == 50

RECURSIVE lstrip(_)
lstrip(s) == IF s # << >> /\ Head(s) \in Whitespace THEN lstrip(Tail(s)) ELSE s

RECURSIVE rstrip(_)
rstrip(s) ==
    IF s # << >> /\ s[Len(s)] \in Whitespace THEN rstrip(SubSeq(s, 1, Len(s) - 1)) ELSE s

\* mutant: the text is taken as it is sent
strip_nothing(s) == s

\* str.strip()
strip(s) == rstrip(lstrip(s))

\* s.split("\n", 1)[0]
RECURSIVE first_line(_)
first_line(s) ==
    IF s = << >> \/ Head(s) = "\n" THEN << >> ELSE <<Head(s)>> \o first_line(Tail(s))

\* ai_service.py AIService.generate_title; llm_ok tells whether the provider
\* answered (with LLM_TITLE) or the fallback snippet is used
generate_title(first_user_message, llm_ok) ==
    LET trimmed == strip(first_user_message)
        snippet == first_line(trimmed)
        title   == IF llm_ok THEN LLM_TITLE
                   ELSE SubSeq(snippet, 1, IF Len(snippet) < SNIPPET_LEN
                                           THEN Len(snippet) ELSE SNIPPET_LEN)
    IN  IF trimmed = << >> THEN DEFAULT_TITLE
        ELSE IF strip(title) = << >> THEN DEFAULT_TITLE ELSE strip(title)

\* a ChatMessage row and a new Conversation row
ChatMessage(role, content) == [role |-> role, content |-> content]

Conversation(user, session_id) ==
    [title |-> DEFAULT_TITLE, user |-> user, session_id |-> session_id, messages |-> << >>]

\* the answer to a chatbot request: status, error text ("" on success),
\* the conversation it names and the messages it carries
Reply(st, err, id, msgs) ==
    [status |-> st, error |-> err, conversation_id |-> id, messages |-> msgs]

\* an answer that carries only an error
Refusal(st, err) == Reply(st, err, 0, << >>)

NoReply == Reply(0, "", 0, << >>)

MESSAGE_REQUIRED == "message is required"
MESSAGE_EMPTY == "Message cannot be empty"
INVALID_REQUEST == "Invalid request"
CONVERSATION_NOT_FOUND == "Conversation not found"
SESSION_MISMATCH == "session_id does not match this conversation"
NO_CONVERSATION_MATCHES == "No Conversation matches the given query."
COMPLETION_FAILED == "completion call failed"   \* str(e) of the provider's exception

\* mutant: a failed completion call takes the user message back
exchange_rollback(conversation, user_message, ai_ok, llm_ok) ==
    LET saved   == [conversation EXCEPT
                       !.messages = Append(@, ChatMessage("user", user_message))]
        replied == [saved EXCEPT !.messages = Append(@, ChatMessage("assistant", LLM_REPLY))]
    IN  IF ~ai_ok
        THEN [conversation |-> conversation, status |-> 500]
        ELSE [conversation |->
                 IF Len(replied.messages) = 2
                 THEN [replied EXCEPT !.title = generate_title(user_message, llm_ok)]
                 ELSE replied,
              status |-> 200]

\* views.py chatbot_send / admin_views.py chatbot_conversation, from the
\* saving of the user message on: the conversation as the turn leaves it and
\* the status; ai_ok tells whether the completion call returned
exchange(conversation, user_message, ai_ok, llm_ok) ==
    LET saved   == [conversation EXCEPT
                       !.messages = Append(@, ChatMessage("user", user_message))]
        replied == [saved EXCEPT !.messages = Append(@, ChatMessage("assistant", LLM_REPLY))]
    IN  IF ~ai_ok
        THEN [conversation |-> saved, status |-> 500]
        ELSE [conversation |->
                 IF Len(replied.messages) = 2
                 THEN [replied EXCEPT !.title = generate_title(user_message, llm_ok)]
                 ELSE replied,
              status |-> 200]

\* views.py: `session_id and conversation.session_id and
\* conversation.session_id != session_id`
SessionMismatch(conversation, session_id) ==
    /\ session_id # NULL
    /\ conversation.session_id # NULL
    /\ conversation.session_id # session_id

\* ------------------------------------------------- text operations
\* the characters Python's str.lower() maps, and those the pattern \w matches
LOWERCASE == <<"a", "b", "c", "d", "e", "f", "g", "h", "i", "j", "k", "l", "m", "n", "o", "p", "q", "r", "s", "t", "u", "v", "w", "x", "y", "z">>
UPPERCASE == <<"A", "B", "C", "D", "E", "F", "G", "H", "I", "J", "K", "L", "M", "N", "O", "P", "Q", "R", "S", "T", "U", "V", "W", "X", "Y", "Z">>
Letters == {LOWERCASE[i] : i \in 1..26} \cup {UPPERCASE[i] : i \in 1..26}
Digits == {"0", "1", "2", "3", "4", "5", "6", "7", "8", "9"}
WordChars == Letters \cup Digits \cup {"_"}

\* str.lower()
lower(s) ==
    [i \in 1..Len(s) |->
        IF \E k \in 1..26 : UPPERCASE[k] = s[i]
        THEN LOWERCASE[CHOOSE k \in 1..26 : UPPERCASE[k] = s[i]]
        ELSE s[i]]

\* Python's `sub in s`
contains(s, sub) ==
    \E i \in 0..(Len(s) - Len(sub)) : SubSeq(s, i + 1, i + Len(sub)) = sub

\* any(kw in message_lower for kw in keywords)
any_in(keywords, message_lower) == \E kw \in keywords : contains(message_lower, kw)

\* re.sub(r"[^\w\s]", "", message)
remove_punctuation(message) ==
    SelectSeq(message, LAMBDA c : c \in WordChars \cup Whitespace)

\* str.split(): the maximal runs of characters that are not whitespace
RECURSIVE split(_)
split(s) ==
    LET t == lstrip(s)
        n == IF \E i \in 1..Len(t) : t[i] \in Whitespace
             THEN (CHOOSE i \in 1..Len(t) :
                      t[i] \in Whitespace /\ \A j \in 1..(i - 1) : t[j] \notin Whitespace) - 1
             ELSE Len(t)
    IN  IF t = << >> THEN << >>
        ELSE <<SubSeq(t, 1, n)>> \o split(SubSeq(t, n + 1, Len(t)))

\* " ".join(words)
RECURSIVE join(_)
join(words) ==
    IF words = << >> THEN << >>
    ELSE IF Len(words) = 1 THEN words[1]
    ELSE words[1] \o <<" ">> \o join(Tail(words))

\* the lookups __iexact and __icontains of the ORM
iexact(value, s) == lower(value) = lower(s)
icontains(value, s) == contains(lower(value), lower(s))

\* ----------------------------------------- the classifier's word lists

stats_keywords ==
    {<<"h", "o", "w", " ", "m", "a", "n", "y">>, <<"t", "o", "t", "a", "l">>,
     <<"c", "o", "u", "n", "t">>, <<"s", "t", "a", "t", "i", "s", "t", "i", "c", "s">>,
     <<"o", "v", "e", "r", "v", "i", "e", "w">>, <<"s", "u", "m", "m", "a", "r", "y">>,
     <<"r", "e", "p", "o", "r", "t">>}

user_keywords ==
    {<<"u", "s", "e", "r">>, <<"p", "e", "o", "p", "l", "e">>,
     <<"d", "e", "l", "e", "g", "a", "t", "e">>,
     <<"r", "e", "g", "i", "s", "t", "e", "r", "e", "d">>,
     <<"a", "t", "t", "e", "n", "d", "e", "e">>, <<"m", "e", "m", "b", "e", "r">>}

drink_keywords ==
    {<<"d", "r", "i", "n", "k">>, <<"b", "e", "v", "e", "r", "a", "g", "e">>,
     <<"s", "t", "o", "c", "k">>, <<"i", "n", "v", "e", "n", "t", "o", "r", "y">>,
     <<"b", "o", "t", "t", "l", "e">>}

transaction_keywords ==
    {<<"o", "r", "d", "e", "r">>, <<"t", "r", "a", "n", "s", "a", "c", "t", "i", "o", "n">>,
     <<"p", "e", "n", "d", "i", "n", "g">>, <<"a", "p", "p", "r", "o", "v", "a", "l">>,
     <<"a", "p", "p", "r", "o", "v", "e", "d">>, <<"d", "e", "n", "i", "e", "d">>}

meal_keywords ==
    {<<"m", "e", "a", "l">>, <<"l", "u", "n", "c", "h">>, <<"d", "i", "n", "n", "e", "r">>,
     <<"b", "b", "q">>, <<"c", "o", "n", "s", "u", "m", "e", "d">>, <<"e", "a", "t", "e", "n">>,
     <<"s", "u", "p", "p", "e", "r">>}

filler_words ==
    {<<"d", "i", "d">>, <<"d", "o", "e", "s">>, <<"h", "a", "s">>, <<"h", "a", "v", "e">>,
     <<"i", "s">>, <<"w", "a", "s">>, <<"w", "e", "r", "e">>, <<"a", "r", "e">>,
     <<"t", "h", "e">>, <<"a">>, <<"a", "n">>, <<"f", "o", "r">>, <<"t", "o">>, <<"o", "f">>,
     <<"a", "n", "d">>, <<"o", "r">>, <<"i", "n">>, <<"o", "n">>, <<"h", "o", "w">>,
     <<"a", "b", "o", "u", "t">>, <<"w", "h", "a", "t">>, <<"w", "h", "o">>,
     <<"w", "h", "e", "r", "e">>, <<"w", "h", "e", "n">>, <<"w", "h", "y">>,
     <<"m", "a", "n", "y">>, <<"m", "u", "c", "h">>, <<"f", "i", "n", "d">>,
     <<"s", "e", "a", "r", "c", "h">>, <<"s", "h", "o", "w">>, <<"t", "e", "l", "l">>,
     <<"m", "e">>, <<"p", "a", "y">>, <<"p", "a", "i", "d">>,
     <<"r", "e", "g", "i", "s", "t", "e", "r">>,
     <<"r", "e", "g", "i", "s", "t", "e", "r", "e", "d">>, <<"c", "h", "e", "c", "k">>,
     <<"c", "a", "n">>, <<"c", "o", "u", "l", "d">>, <<"w", "o", "u", "l", "d">>,
     <<"s", "h", "o", "u", "l", "d">>, <<"w", "i", "l", "l">>, <<"d", "o">>,
     <<"t", "h", "e", "i", "r">>, <<"h", "i", "s">>, <<"h", "e", "r">>, <<"m", "y">>,
     <<"y", "o", "u", "r">>, <<"o", "u", "r">>, <<"p", "l", "e", "a", "s", "e">>,
     <<"t", "h", "a", "n", "k", "s">>, <<"t", "h", "a", "n", "k">>, <<"y", "o", "u">>, <<"i">>,
     <<"w", "e">>, <<"t", "h", "e", "y">>, <<"n", "o", "t">>, <<"n", "o">>, <<"y", "e", "s">>,
     <<"a", "n", "y">>, <<"a", "l", "l">>, <<"s", "o", "m", "e">>, <<"t", "h", "i", "s">>,
     <<"t", "h", "a", "t">>, <<"t", "h", "e", "s", "e">>, <<"t", "h", "o", "s", "e">>,
     <<"i", "t">>, <<"w", "i", "t", "h">>, <<"f", "r", "o", "m">>, <<"a", "t">>, <<"b", "y">>,
     <<"u", "p">>, <<"o", "u", "t">>, <<"i", "f">>, <<"b", "u", "t">>, <<"s", "o">>,
     <<"t", "h", "e", "n">>, <<"a", "l", "s", "o">>, <<"j", "u", "s", "t">>, <<"g", "e", "t">>,
     <<"g", "o", "t">>, <<"k", "n", "o", "w">>, <<"s", "e", "e">>, <<"l", "o", "o", "k">>,
     <<"m", "e", "a", "l", "s">>, <<"m", "e", "a", "l">>, <<"l", "u", "n", "c", "h">>,
     <<"d", "i", "n", "n", "e", "r">>, <<"b", "b", "q">>, <<"d", "r", "i", "n", "k", "s">>,
     <<"d", "r", "i", "n", "k">>, <<"r", "e", "m", "a", "i", "n", "i", "n", "g">>,
     <<"l", "e", "f", "t">>, <<"a", "l", "l", "o", "w", "a", "n", "c", "e">>,
     <<"s", "t", "a", "t", "u", "s">>}

followup_cues ==
    {<<"t", "h", "e", "m">>, <<"t", "h", "e", "y">>, <<"h", "e", "r">>, <<"h", "i", "m">>,
     <<"s", "h", "e">>, <<"h", "e">>, <<"t", "h", "i", "s", " ", "p", "e", "r", "s", "o", "n">>,
     <<"t", "h", "a", "t", " ", "p", "e", "r", "s", "o", "n">>, <<"t", "h", "o", "s", "e">>,
     <<"t", "h", "e", "s", "e", " ", "p", "e", "o", "p", "l", "e">>,
     <<"d", "e", "t", "a", "i", "l", "s">>, <<"m", "o", "r", "e", " ", "i", "n", "f", "o">>,
     <<"m", "o", "r", "e", " ", "a", "b", "o", "u", "t">>,
     <<"e", "l", "a", "b", "o", "r", "a", "t", "e">>,
     <<"t", "e", "l", "l", " ", "m", "e", " ", "m", "o", "r", "e">>,
     <<"g", "i", "v", "e", " ", "m", "e", " ", "d", "e", "t", "a", "i", "l", "s">>,
     <<"w", "h", "a", "t", " ", "a", "b", "o", "u", "t">>}

person_triggers ==
    {<<"p", "a", "y">>, <<"p", "a", "i", "d">>, <<"w", "h", "o", " ", "i", "s">>,
     <<"f", "i", "n", "d">>, <<"a", "b", "o", "u", "t">>, <<"s", "e", "a", "r", "c", "h">>,
     <<"h", "o", "w", " ", "a", "b", "o", "u", "t">>,
     <<"c", "h", "e", "c", "k", " ", "o", "n">>, <<"l", "o", "o", "k", " ", "u", "p">>,
     <<"a", "l", "l", "o", "w", "a", "n", "c", "e">>}

\* ------------------------------------------------ the registry's names
\* people the registry may hold besides Persons: two guests and a crowd
\* whose names all contain "sam" and "le"
Guests == {"p3", "p4"}
CrowdOrder ==
    <<"c01", "c02", "c03", "c04", "c05", "c06", "c07", "c08", "c09", "c10", "c11", "c12",
      "c13", "c14", "c15", "c16", "c17", "c18", "c19", "c20", "c21", "c22", "c23", "c24",
      "c25", "c26", "c27", "c28", "c29", "c30", "c31", "c32", "c33", "c34", "c35", "c36",
      "c37", "c38", "c39", "c40", "c41", "c42", "c43", "c44", "c45", "c46", "c47", "c48",
      "c49", "c50", "c51">>
Crowd == {CrowdOrder[i] : i \in 1..Len(CrowdOrder)}
People == Persons \cup Guests \cup Crowd

\* the order in which a query without order_by returns the rows of the
\* User table: the order of the primary key
PersonOrder == <<"p1", "p2", "p3", "p4">> \o CrowdOrder

\* User.first_name and User.last_name; the crowd is Sam Leaa, Sam Leab, ...
first_name ==
    [p \in People |->
        CASE p = "p1" -> <<"J", "a", "n", "e">>
          [] p = "p2" -> <<"J", "o", "h", "n">>
          [] p \in Guests -> <<"I", "r", "e", "n", "e">>
          [] OTHER -> <<"S", "a", "m">>]

last_name ==
    [p \in People |->
        CASE p = "p1" -> <<"D", "o", "e">>
          [] p = "p2" -> <<"G", "i", "l", "m", "o", "r", "e">>
          [] p = "p3" -> <<"T", "i", "n", "k", "a">>
          [] p = "p4" -> <<"K", "a", "t", "i", "n", "k", "a">>
          [] OTHER ->
               LET i == CHOOSE k \in 1..Len(CrowdOrder) : CrowdOrder[k] = p
               IN  <<"L", "e">> \o <<LOWERCASE[((i - 1) \div 26) + 1], LOWERCASE[((i - 1) % 26) + 1]>>]

\* ------------------------------------------------------ registry lookup
LOOKUP_LIMIT  == 10     \* users[:10]
LOOKBACK      == 5      \* recent_user_msgs[:5]
LISTING_LIMIT == 50     \* User.objects.all()[:50]

\* User.objects.all(): the registered people, in the order of the table
Registry == SelectSeq(PersonOrder, LAMBDA p : p \in DOMAIN users)

\* mutant: a slice that cuts nothing
limit_nothing(rows, n) == rows

\* queryset[:n]
limit(rows, n) == SubSeq(rows, 1, IF Len(rows) < n THEN Len(rows) ELSE n)

\* filter(Q(first_name__icontains=first) & Q(last_name__icontains=last))
both_icontains(first, last) ==
    SelectSeq(Registry, LAMBDA p : icontains(first_name[p], first)
                                   /\ icontains(last_name[p], last))

\* filter(first_name__iexact=first, last_name__iexact=last)
both_iexact(first, last) ==
    SelectSeq(Registry, LAMBDA p : iexact(first_name[p], first)
                                   /\ iexact(last_name[p], last))

\* filter(Q(first_name__icontains=token) | Q(last_name__icontains=token))
either_icontains(token) ==
    SelectSeq(Registry, LAMBDA p : icontains(first_name[p], token)
                                   \/ icontains(last_name[p], token))

\* `if users.exists(): return users[:10]`, else the next strategy
or_else(rows, next_strategy) ==
    IF rows # << >> THEN limit(rows, LOOKUP_LIMIT) ELSE next_strategy

\* `if len(parts) >= 2`: the exact match, else the substring match, else
\* nobody
by_first_and_last(first, last) ==
    or_else(both_iexact(first, last), or_else(both_icontains(first, last), << >>))

\* mutant: a query of three or more tokens is matched on its first two tokens
last_part_second(parts) == parts[IF Len(parts) >= 3 THEN 2 ELSE Len(parts)]

\* parts[-1]
last_part(parts) == parts[Len(parts)]

\* the strategies of _search_users_flexible on the tokens of the query
search_parts(parts) ==
    IF parts = << >> THEN << >>
    ELSE IF Len(parts) >= 3
    THEN or_else(both_icontains(parts[1], last_part(parts)),
                 by_first_and_last(parts[1], last_part(parts)))
    ELSE IF Len(parts) >= 2
    THEN by_first_and_last(parts[1], last_part(parts))
    ELSE or_else(either_icontains(parts[1]), << >>)

\* admin_views.py _search_users_flexible: the people found, as the ids of
\* their rows
search_users_flexible(name_query) == search_parts(split(strip(name_query)))

\* ------------------------------------------------------ intent classifier
\* specific_user_name when no name was found (None)
NoName == << >>

\* the name tokens of a message: its words, punctuation removed, that are
\* no filler words and longer than one character
name_tokens_of(message) ==
    SelectSeq(split(remove_punctuation(message)),
              LAMBDA w : lower(w) \notin filler_words /\ Len(w) > 1)

\* `if not users_found`: the next strategy is tried
if_not_found(users_found, next_strategy) ==
    IF users_found # << >> THEN users_found ELSE next_strategy

\* strategy 3: the first token of three characters or more that finds
\* somebody
RECURSIVE by_single_token(_)
by_single_token(name_tokens) ==
    IF name_tokens = << >> THEN << >>
    ELSE IF Len(Head(name_tokens)) >= 3
    THEN if_not_found(search_users_flexible(Head(name_tokens)),
                      by_single_token(Tail(name_tokens)))
    ELSE by_single_token(Tail(name_tokens))

\* the three strategies of the name detection, tried in turn: all tokens,
\* the first and the last token, then each token of three characters or more
users_found_for(name_tokens) ==
    IF name_tokens = << >> THEN << >>
    ELSE if_not_found(
             search_users_flexible(join(name_tokens)),
             if_not_found(
                 IF Len(name_tokens) >= 2
                 THEN search_users_flexible(
                          join(<<name_tokens[1], name_tokens[Len(name_tokens)]>>))
                 ELSE << >>,
                 by_single_token(name_tokens)))

\* [msg["content"] for msg in reversed(conversation_history)
\*  if msg.get("role") == "user" and msg["content"].strip() != message.strip()]
RECURSIVE previous_user_messages(_, _)
previous_user_messages(conversation_history, message) ==
    IF conversation_history = << >> THEN << >>
    ELSE LET msg  == conversation_history[Len(conversation_history)]
             rest == previous_user_messages(
                         SubSeq(conversation_history, 1, Len(conversation_history) - 1),
                         message)
         IN  IF msg.role = "user" /\ strip(msg.content) # strip(message)
             THEN <<msg.content>> \o rest
             ELSE rest

\* any(kw in message_lower for kw in person_triggers)
person_trigger(message_lower) == any_in(person_triggers, message_lower)

\* mutant: the whole list of previous user messages is scanned
recent_user_msgs_unbounded(conversation_history, message) ==
    previous_user_messages(conversation_history, message)

\* the previous user messages the follow-up detection looks at
recent_user_msgs(conversation_history, message) ==
    limit(previous_user_messages(conversation_history, message), LOOKBACK)

\* the history a previous message is classified with: none
history_of_previous(conversation_history) == << >>

\* the intent dictionary as the classifier sets it up
NoIntent ==
    [needs_stats         |-> FALSE,
     needs_users         |-> FALSE,
     needs_specific_user |-> FALSE,
     needs_drinks        |-> FALSE,
     needs_transactions  |-> FALSE,
     needs_meal_logs     |-> FALSE,
     specific_user_name  |-> NoName,
     matched_user_ids    |-> << >>,
     reclassified        |-> 0,
     depth               |-> 0]

\* the intent with the keyword flags of the message and the people found
flagged_intent(message_lower, name_tokens, users_found) ==
    [NoIntent EXCEPT
       !.needs_stats         = any_in(stats_keywords, message_lower),
       !.needs_users         = any_in(user_keywords, message_lower),
       !.needs_drinks        = any_in(drink_keywords, message_lower),
       !.needs_transactions  = any_in(transaction_keywords, message_lower),
       !.needs_meal_logs     = any_in(meal_keywords, message_lower),
       !.needs_specific_user = users_found # << >>,
       !.specific_user_name  = IF users_found # << >> THEN join(name_tokens)
                               ELSE NoName,
       !.matched_user_ids    = users_found]

\* _classify_query_intent up to the follow-up detection: the keyword flags
\* and the people the message itself names
named_intent(message) ==
    flagged_intent(lower(message), name_tokens_of(message),
                   users_found_for(name_tokens_of(message)))

\* mutant: the oldest of the previous intents that matched somebody is taken
resolve_followup_last(intent, prev_intent) ==
    LET resolving == {i \in 1..Len(prev_intent) : prev_intent[i].matched_user_ids # << >>}
        calls     == IF resolving = {} THEN Len(prev_intent)
                     ELSE CHOOSE i \in resolving : \A j \in resolving : i >= j
    IN  IF resolving = {} THEN [intent EXCEPT !.reclassified = calls, !.depth = 0]
        ELSE [intent EXCEPT
                !.reclassified = calls, !.depth = 1,
                !.needs_specific_user = TRUE,
                !.specific_user_name  = prev_intent[calls].specific_user_name,
                !.matched_user_ids    = prev_intent[calls].matched_user_ids]

\* the loop over recent_user_msgs: the intent takes the people and the name
\* of the first previous intent that matched somebody, and the loop stops;
\* calls is the number of previous messages classified until then
resolve_followup(intent, prev_intent) ==
    LET resolving == {i \in 1..Len(prev_intent) : prev_intent[i].matched_user_ids # << >>}
        calls     == IF resolving = {} THEN Len(prev_intent)
                     ELSE CHOOSE i \in resolving : \A j \in resolving : i <= j
        depths    == {prev_intent[i].depth : i \in 1..calls}
        counted   == [intent EXCEPT
                        !.reclassified = calls,
                        !.depth = IF calls = 0 THEN 0
                                  ELSE 1 + (CHOOSE d \in depths : \A e \in depths : e <= d)]
    IN  IF resolving = {} THEN counted
        ELSE [counted EXCEPT
                !.needs_specific_user = TRUE,
                !.specific_user_name  = prev_intent[calls].specific_user_name,
                !.matched_user_ids    = prev_intent[calls].matched_user_ids]

\* the follow-up detection: the previous messages to classify, none unless
\* the message names nobody, there is a history and the message has a cue
followup_msgs(intent, message, conversation_history) ==
    IF /\ intent.matched_user_ids = << >>
       /\ conversation_history # << >>
       /\ any_in(followup_cues, lower(message))
    THEN recent_user_msgs(conversation_history, message)
    ELSE << >>

\* the intent after the follow-up detection and the person triggers
finish_intent(intent, prev_intent, message) ==
    [resolve_followup(intent, prev_intent)
     EXCEPT !.needs_specific_user = @ \/ person_trigger(lower(message))]

\* the classifier from the follow-up detection on, for the intent the
\* message itself gave and the previous messages to classify
RECURSIVE classify_followup(_, _, _, _)

\* admin_views.py _classify_query_intent.  The fields reclassified and depth
\* count the classifier calls the call made for previous messages and how
\* deep they nest; the other fields are those of the intent dictionary
classify_query_intent(message, conversation_history) ==
    classify_followup(named_intent(message), message, conversation_history,
        followup_msgs(named_intent(message), message, conversation_history))

classify_followup(intent, message, conversation_history, recent) ==
    finish_intent(intent,
        [i \in 1..Len(recent) |->
            classify_query_intent(recent[i], history_of_previous(conversation_history))],
        message)

\* ------------------------------------------------------ context assembler
\* the person block of the context
USER_FOUND == "=== USER FOUND ==="
NO_MATCH   == "=== USER SEARCH: No matching user found in the database ==="
LISTING    == "=== USER SEARCH (Showing 50 users) ==="
NO_BLOCK   == ""

\* mutant: a search that found nobody falls back to the listing
person_block_listing_first(intent) ==
    IF ~(intent.needs_users \/ intent.needs_specific_user) THEN NO_BLOCK
    ELSE IF intent.matched_user_ids # << >> THEN USER_FOUND
    ELSE IF intent.needs_users THEN LISTING
    ELSE NO_MATCH

\* admin_views.py _build_smart_context, "Users": which block is rendered
person_block(intent) ==
    IF ~(intent.needs_users \/ intent.needs_specific_user) THEN NO_BLOCK
    ELSE IF intent.matched_user_ids # << >> THEN USER_FOUND
    ELSE IF intent.needs_specific_user /\ intent.matched_user_ids = << >> THEN NO_MATCH
    ELSE IF intent.needs_users THEN LISTING
    ELSE NO_BLOCK

\* _build_smart_context after the classification: the intent, the person
\* block and the people it renders, the number of people it reports as left
\* out, and the other sections in the order they are appended
assemble_context(users_name, intent, block, users_list) ==
    [admin_user |-> users_name,
     intent   |-> intent,
     block    |-> block,
     people   |-> IF block = USER_FOUND
                  THEN SelectSeq(Registry,
                           LAMBDA p : \E i \in DOMAIN intent.matched_user_ids :
                                         intent.matched_user_ids[i] = p)
                  ELSE IF block = LISTING THEN users_list
                  ELSE << >>,
     more     |-> IF block = LISTING /\ Len(Registry) > Len(users_list)
                  THEN Len(Registry) - Len(users_list) ELSE 0,
     sections |-> <<"OVERVIEW">>
                  \o (IF intent.needs_stats \/ intent.needs_meal_logs
                      THEN <<"REGISTRATIONS">> ELSE << >>)
                  \o (IF intent.needs_drinks THEN <<"DRINK INVENTORY">> ELSE << >>)
                  \o (IF intent.needs_transactions
                      THEN <<"DRINK TRANSACTIONS">> ELSE << >>)
                  \o (IF block # NO_BLOCK THEN <<"USERS">> ELSE << >>)
                  \o (IF intent.needs_meal_logs
                      THEN <<"RECENT MEAL CONSUMPTION">> ELSE << >>)
                  \o <<"WHAT YOU CAN DO">>]

\* the context for an intent
context_for(users_name, intent) ==
    assemble_context(users_name, intent, person_block(intent),
                     limit(Registry, LISTING_LIMIT))

\* admin_views.py _build_smart_context
build_smart_context(users_name, user_message, conversation_history) ==
    context_for(users_name, classify_query_intent(user_message, conversation_history))

\* the arguments of a call of AIService.generate_response
Completion(messages, context) == [messages |-> messages, context |-> context]

\* no call was made yet
NoContext ==
    [admin_user |-> "", intent |-> NoIntent, block |-> NO_BLOCK, people |-> << >>,
     more |-> 0, sections |-> << >>]

NoCompletion == Completion(<< >>, NoContext)

\* the result of a registry lookup: the query and the people found
Lookup(name_query, rows) == [name_query |-> name_query, users |-> rows]

NoLookup == Lookup(<< >>, << >>)

\* a request in flight: where the handler stands (pc), what it was asked
\* (op, who, order_id) and the model instances it holds in memory
Idle ==
    [pc |-> "idle", op |-> "", who |-> "", order_id |-> 0,
     user  |-> [lunches_remaining |-> 0, dinners_remaining |-> 0, drinks_remaining |-> 0,
                has_friday_lunch |-> FALSE, has_saturday_lunch |-> FALSE, week_start |-> 0],
     drink_type |-> [available_quantity |-> 0],
     order |-> DrinkTransaction("", "", 0, "")]

\* --------------------------------------------------------------------- Init
\* the registry as the import commands build it: weekly defaults (a person
\* may already have drawn on the drinks), any combination of the day flags
UserRows ==
    [lunches_remaining : {WEEKLY_LUNCHES},
     dinners_remaining : {WEEKLY_DINNERS},
     drinks_remaining  : {InitDrinksRemaining},
     has_friday_lunch  : BOOLEAN,
     has_saturday_lunch: BOOLEAN,
     week_start        : {0}]

NoDayFlags == \A p \in Persons : ~users[p].has_friday_lunch /\ ~users[p].has_saturday_lunch

InitAny ==
    /\ users \in [Persons -> UserRows]
    /\ drink_types \in [Drinks -> [available_quantity : InitStock]]
    /\ orders = << >>
    /\ meal_logs = EmptyBag
    /\ now = 0
    /\ response = NoResponse
    /\ inflight = [w \in Workers |-> Idle]
    /\ conversations = << >>
    /\ reply = NoReply
    /\ completion = NoCompletion
    /\ lookup = NoLookup

Init == InitAny /\ NoDayFlags /\ \A d \in Drinks : drink_types[d].available_quantity = 10

InitMeals == InitAny /\ \A d \in Drinks : drink_types[d].available_quantity = 10

InitOrders == InitAny /\ NoDayFlags

\* ------------------------------------------------------------------ actions
\* the clock advances by one day; no request is handled
Tick ==
    /\ now < MaxNow
    /\ now' = now + 1
    /\ response' = NoResponse
    /\ UNCHANGED <<users, drink_types, orders, meal_logs>>

\* views.py consume_lunch
consume_lunch(who) ==
    /\ UNCHANGED <<drink_types, orders, now>>
    /\ IF who = Blank
       THEN /\ response' = Resp(400, REQUIRED, 0)
            /\ UNCHANGED <<users, meal_logs>>
       ELSE IF ~verify_user_exists(who)
       THEN /\ response' = UserNotFound
            /\ UNCHANGED <<users, meal_logs>>
       ELSE LET user == reset_weekly_allowance(users[who], now)
                dayerr == LunchDayError(user, weekday(now))
            IN  IF dayerr # ""
                THEN /\ response' = Resp(403, dayerr, 0)
                     /\ users' = [users EXCEPT ![who] = user]
                     /\ UNCHANGED meal_logs
                ELSE IF NoLunchesRemaining(user)
                THEN /\ response' = Resp(400, NO_LUNCHES, 0)
                     /\ users' = [users EXCEPT ![who] = user]
                     /\ UNCHANGED meal_logs
                ELSE /\ BagCardinality(meal_logs) < MaxLogs
                     /\ users' = [users EXCEPT ![who] =
                            [user EXCEPT !.lunches_remaining = @ - 1]]
                     /\ meal_logs' = CreateMealLog(meal_logs, who, "lunch")
                     /\ response' = Resp(200, "", 0)

\* views.py consume_dinner
consume_dinner(who) ==
    /\ UNCHANGED <<drink_types, orders, now>>
    /\ IF who = Blank
       THEN /\ response' = Resp(400, REQUIRED, 0)
            /\ UNCHANGED <<users, meal_logs>>
       ELSE IF ~verify_user_exists(who)
       THEN /\ response' = UserNotFound
            /\ UNCHANGED <<users, meal_logs>>
       ELSE LET user == reset_weekly_allowance(users[who], now)
            IN  IF NoDinnersRemaining(user)
                THEN /\ response' = Resp(400, NO_DINNERS, 0)
                     /\ users' = [users EXCEPT ![who] = user]
                     /\ UNCHANGED meal_logs
                ELSE /\ BagCardinality(meal_logs) < MaxLogs
                     /\ users' = [users EXCEPT ![who] =
                            [user EXCEPT !.dinners_remaining = @ - 1]]
                     /\ meal_logs' = CreateMealLog(meal_logs, who, "dinner")
                     /\ response' = Resp(200, "", 0)

\* the names a request or a form may give a drink: the catalog's Cola, the
\* same in lower case, and a drink the catalog does not have
DrinkNames == Drinks \cup {"cola", NoDrink}

\* str.lower() of a drink name
lowered == [n \in DrinkNames |-> IF n \in {"Cola", "cola"} THEN "cola" ELSE "water"]

\* DrinkType.objects.filter(name__iexact=drink_name): the rows whose name is
\* drink_name when case is ignored
name_iexact(drink_name) ==
    {d \in DOMAIN drink_types : lowered[d] = lowered[drink_name]}

\* the unhandled MultipleObjectsReturned of DrinkType.objects.get
MULTIPLE_OBJECTS == "get() returned more than one DrinkType"

\* mutant: the quantity of a drink request is not validated
consume_drink_any_quantity(who, drink_name, quantity, serving_point) ==
    /\ UNCHANGED <<drink_types, meal_logs, now>>
    /\ IF who = Blank
       THEN /\ response' = Resp(400, REQUIRED, 0)
            /\ UNCHANGED <<users, orders>>
       ELSE IF serving_point = Blank
       THEN /\ response' = Resp(400, "serving_point is required", 0)
            /\ UNCHANGED <<users, orders>>
       ELSE IF drink_name = Blank
       THEN /\ response' = Resp(400, "drink_name is required", 0)
            /\ UNCHANGED <<users, orders>>
       ELSE IF ~verify_user_exists(who)
       THEN /\ response' = UserNotFound
            /\ UNCHANGED <<users, orders>>
       ELSE IF name_iexact(drink_name) = {}
       THEN /\ response' = Resp(404, "Drink type not found", 0)
            /\ UNCHANGED <<users, orders>>
       ELSE IF Cardinality(name_iexact(drink_name)) > 1
       THEN /\ response' = Resp(500, MULTIPLE_OBJECTS, 0)
            /\ UNCHANGED <<users, orders>>
       ELSE LET drink_type == CHOOSE d \in name_iexact(drink_name) : TRUE
                user == reset_weekly_allowance(users[who], now)
            IN  IF drink_types[drink_type].available_quantity < quantity
                THEN /\ response' = Resp(400, INSUFFICIENT_STOCK,
                                         drink_types[drink_type].available_quantity)
                     /\ UNCHANGED <<users, orders>>
                ELSE IF user.drinks_remaining < quantity
                THEN /\ response' = Resp(400, INSUFFICIENT_ALLOWANCE, user.drinks_remaining)
                     /\ users' = [users EXCEPT ![who] = user]
                     /\ UNCHANGED orders
                ELSE /\ Len(orders) < MaxOrders
                     /\ users' = [users EXCEPT ![who] = user]
                     /\ orders' = Append(orders,
                            DrinkTransaction(who, drink_type, quantity, serving_point))
                     /\ response' = Resp(202, "", 0)

\* views.py consume_drink: submits a drink order for approval
consume_drink(who, drink_name, quantity, serving_point) ==
    /\ UNCHANGED <<drink_types, meal_logs, now>>
    /\ IF who = Blank
       THEN /\ response' = Resp(400, REQUIRED, 0)
            /\ UNCHANGED <<users, orders>>
       ELSE IF serving_point = Blank
       THEN /\ response' = Resp(400, "serving_point is required", 0)
            /\ UNCHANGED <<users, orders>>
       ELSE IF drink_name = Blank
       THEN /\ response' = Resp(400, "drink_name is required", 0)
            /\ UNCHANGED <<users, orders>>
       ELSE IF quantity < 1
       THEN /\ response' = Resp(400, "quantity must be a positive integer", 0)
            /\ UNCHANGED <<users, orders>>
       ELSE IF ~verify_user_exists(who)
       THEN /\ response' = UserNotFound
            /\ UNCHANGED <<users, orders>>
       ELSE IF name_iexact(drink_name) = {}
       THEN /\ response' = Resp(404, "Drink type not found", 0)
            /\ UNCHANGED <<users, orders>>
       ELSE IF Cardinality(name_iexact(drink_name)) > 1
       THEN /\ response' = Resp(500, MULTIPLE_OBJECTS, 0)
            /\ UNCHANGED <<users, orders>>
       ELSE LET drink_type == CHOOSE d \in name_iexact(drink_name) : TRUE
                user == reset_weekly_allowance(users[who], now)
            IN  IF drink_types[drink_type].available_quantity < quantity
                THEN /\ response' = Resp(400, INSUFFICIENT_STOCK,
                                         drink_types[drink_type].available_quantity)
                     /\ UNCHANGED <<users, orders>>
                ELSE IF user.drinks_remaining < quantity
                THEN /\ response' = Resp(400, INSUFFICIENT_ALLOWANCE, user.drinks_remaining)
                     /\ users' = [users EXCEPT ![who] = user]
                     /\ UNCHANGED orders
                ELSE /\ Len(orders) < MaxOrders
                     /\ users' = [users EXCEPT ![who] = user]
                     /\ orders' = Append(orders,
                            DrinkTransaction(who, drink_type, quantity, serving_point))
                     /\ response' = Resp(202, "", 0)

\* mutant: approval deducts a single drink whatever the order's quantity
approve_order_deduct_one(order_id) ==
    /\ UNCHANGED now
    /\ IF ~PendingOrder(order_id)
       THEN /\ response' = Resp(404, NOT_FOUND, 0)
            /\ UNCHANGED <<users, drink_types, orders, meal_logs>>
       ELSE LET order == orders[order_id]
                err == ApprovalError(users[order.user], drink_types[order.drink_type], order)
            IN  IF err # NoResponse
                THEN /\ response' = err
                     /\ UNCHANGED <<users, drink_types, orders, meal_logs>>
                ELSE /\ BagCardinality(meal_logs) < MaxLogs
                     /\ users' = [users EXCEPT ![order.user].drinks_remaining = @ - 1]
                     /\ drink_types' = [drink_types EXCEPT
                            ![order.drink_type].available_quantity = @ - 1]
                     /\ orders' = [orders EXCEPT ![order_id].status = "approved",
                                                 ![order_id].approved_at = STAMP]
                     /\ meal_logs' = CreateMealLog(meal_logs, order.user, "drink")
                     /\ response' = Resp(302, "", 0)

\* admin_views.py approve_order (POST)
approve_order(order_id) ==
    /\ UNCHANGED now
    /\ IF ~PendingOrder(order_id)
       THEN /\ response' = Resp(404, NOT_FOUND, 0)
            /\ UNCHANGED <<users, drink_types, orders, meal_logs>>
       ELSE LET order == orders[order_id]
                user == users[order.user]
                drink_type == drink_types[order.drink_type]
                err == ApprovalError(user, drink_type, order)
            IN  IF err # NoResponse
                THEN /\ response' = err
                     /\ UNCHANGED <<users, drink_types, orders, meal_logs>>
                ELSE /\ BagCardinality(meal_logs) < MaxLogs
                     /\ users' = [users EXCEPT ![order.user].drinks_remaining = @ - order.quantity]
                     /\ drink_types' = [drink_types EXCEPT
                            ![order.drink_type].available_quantity = @ - order.quantity]
                     /\ orders' = [orders EXCEPT ![order_id].status = "approved",
                                                 ![order_id].approved_at = STAMP]
                     /\ meal_logs' = CreateMealLog(meal_logs, order.user, "drink")
                     /\ response' = Resp(302, "", 0)

\* mutant: denial gives the allowance back, as if it had been reserved
deny_order_refund(order_id) ==
    /\ UNCHANGED <<drink_types, meal_logs, now>>
    /\ IF ~PendingOrder(order_id)
       THEN /\ response' = Resp(404, NOT_FOUND, 0)
            /\ UNCHANGED <<users, orders>>
       ELSE /\ orders' = [orders EXCEPT ![order_id].status = "denied",
                                        ![order_id].approved_at = STAMP]
            /\ users' = [users EXCEPT ![orders[order_id].user].drinks_remaining =
                                          @ + orders[order_id].quantity]
            /\ response' = Resp(302, "", 0)

\* mutant: denial puts the order's quantity on the stock, as if it had been
\* taken off at submission
deny_order_restock(order_id) ==
    /\ UNCHANGED <<users, meal_logs, now>>
    /\ IF ~PendingOrder(order_id)
       THEN /\ response' = Resp(404, NOT_FOUND, 0)
            /\ UNCHANGED <<drink_types, orders>>
       ELSE /\ orders' = [orders EXCEPT ![order_id].status = "denied",
                                        ![order_id].approved_at = STAMP]
            /\ drink_types' = [drink_types EXCEPT
                   ![orders[order_id].drink_type].available_quantity =
                       @ + orders[order_id].quantity]
            /\ response' = Resp(302, "", 0)

\* admin_views.py deny_order (POST)
deny_order(order_id) ==
    /\ UNCHANGED <<users, drink_types, meal_logs, now>>
    /\ IF ~PendingOrder(order_id)
       THEN /\ response' = Resp(404, NOT_FOUND, 0)
            /\ UNCHANGED orders
       ELSE /\ orders' = [orders EXCEPT ![order_id].status = "denied",
                                        ![order_id].approved_at = STAMP]
            /\ response' = Resp(302, "", 0)

\* order ids a request may name: every row the table can hold and one past it
OrderIds == 1..(MaxOrders + 1)

\* well-formed drink requests of registered people
DrinkRequests ==
    {<<who, d, q, "bar">> : who \in Persons, d \in Drinks, q \in Quantity}

\* drink requests that fail validation or lookup, one per early return
BadDrinkRequests ==
    {<<Blank, "Cola", 1, "bar">>, <<"p1", "Cola", 1, Blank>>, <<"p1", Blank, 1, "bar">>,
     <<"p1", "Cola", 0, "bar">>, <<Stranger, "Cola", 1, "bar">>, <<"p1", NoDrink, 1, "bar">>}

Next ==
    /\ UNCHANGED <<inflight, conversations, reply, completion, lookup>>
    /\ \/ Tick
       \/ \E who \in Persons : consume_lunch(who)
       \/ \E who \in Persons : consume_dinner(who)
       \/ \E r \in DrinkRequests : consume_drink(r[1], r[2], r[3], r[4])
       \/ \E o \in OrderIds : approve_order(o)
       \/ \E o \in OrderIds : deny_order(o)

Spec == Init /\ [][Next]_vars

NextMeals ==
    /\ UNCHANGED <<inflight, conversations, reply, completion, lookup>>
    /\ \/ Tick
       \/ \E who \in Who : consume_lunch(who)
       \/ \E who \in Who : consume_dinner(who)

SpecMeals == InitMeals /\ [][NextMeals]_vars

NextOrders ==
    /\ UNCHANGED <<inflight, conversations, reply, completion, lookup>>
    /\ \/ Tick
       \/ \E r \in DrinkRequests \cup BadDrinkRequests : consume_drink(r[1], r[2], r[3], r[4])
       \/ \E o \in OrderIds : approve_order(o)
       \/ \E o \in OrderIds : deny_order(o)

SpecOrders == InitOrders /\ [][NextOrders]_vars

\* the three consume operations of the API and the clock.  p1 has any day
\* flags and either the allowances of a new week or those of a week nearly
\* used up (no lunch, no dinner, one drink); p2 has no flags and a new
\* week's allowances; 2 Cola are in stock, fewer than the largest request
InitLedger ==
    /\ \E fri \in BOOLEAN, sat \in BOOLEAN, used \in BOOLEAN :
          users = [p \in Persons |->
             IF p = "p1"
             THEN [lunches_remaining  |-> IF used THEN 0 ELSE WEEKLY_LUNCHES,
                   dinners_remaining  |-> IF used THEN 0 ELSE WEEKLY_DINNERS,
                   drinks_remaining   |-> IF used THEN 1 ELSE InitDrinksRemaining,
                   has_friday_lunch   |-> fri,
                   has_saturday_lunch |-> sat,
                   week_start         |-> 0]
             ELSE [lunches_remaining  |-> WEEKLY_LUNCHES,
                   dinners_remaining  |-> WEEKLY_DINNERS,
                   drinks_remaining   |-> InitDrinksRemaining,
                   has_friday_lunch   |-> FALSE,
                   has_saturday_lunch |-> FALSE,
                   week_start         |-> 0]]
    /\ drink_types = [d \in Drinks |-> [available_quantity |-> 2]]
    /\ orders = << >>
    /\ meal_logs = EmptyBag
    /\ now = 0
    /\ response = NoResponse
    /\ inflight = [w \in Workers |-> Idle]
    /\ conversations = << >>
    /\ reply = NoReply
    /\ completion = NoCompletion
    /\ lookup = NoLookup

NextLedger ==
    /\ UNCHANGED <<inflight, conversations, reply, completion, lookup>>
    /\ \/ Tick
       \/ \E who \in Persons : consume_lunch(who)
       \/ \E who \in Persons : consume_dinner(who)
       \/ \E r \in DrinkRequests : consume_drink(r[1], r[2], r[3], r[4])

SpecLedger == InitLedger /\ [][NextLedger]_vars

\* ------------------------------------------------------ the drink catalog
\* a person as the import commands register them
NewUser ==
    [lunches_remaining  |-> WEEKLY_LUNCHES,
     dinners_remaining  |-> WEEKLY_DINNERS,
     drinks_remaining   |-> WEEKLY_DRINKS,
     has_friday_lunch   |-> FALSE,
     has_saturday_lunch |-> FALSE,
     week_start         |-> 0]

\* views.py add_drink_stock: creates the drink or sets its quantity
add_drink_stock(drink_name, quantity) ==
    /\ UNCHANGED <<users, orders, meal_logs, now>>
    /\ IF drink_name = Blank
       THEN /\ response' = Resp(400, "drink_name and quantity are required", 0)
            /\ UNCHANGED drink_types
       ELSE IF quantity < 0
       THEN /\ response' = Resp(400, "quantity must be a non-negative integer", 0)
            /\ UNCHANGED drink_types
       ELSE /\ drink_types' =
                  [n \in DOMAIN drink_types \cup {drink_name} |->
                      IF n = drink_name THEN [available_quantity |-> quantity]
                      ELSE drink_types[n]]
            /\ response' = Resp(200, "", 0)

\* the unhandled IntegrityError of a second row with the same name
INTEGRITY_ERROR == "UNIQUE constraint failed: main_drinktype.name"

\* admin_views.py add_drink (POST)
add_drink(name, quantity) ==
    /\ UNCHANGED <<users, orders, meal_logs, now>>
    /\ IF name \in DOMAIN drink_types
       THEN /\ response' = Resp(500, INTEGRITY_ERROR, 0)
            /\ UNCHANGED drink_types
       ELSE /\ drink_types' =
                  [n \in DOMAIN drink_types \cup {name} |->
                      IF n = name THEN [available_quantity |-> quantity]
                      ELSE drink_types[n]]
            /\ response' = Resp(302, "", 0)

\* admin_views.py edit_drink (POST); the orders of the drink refer to its
\* row and follow it to its new name
edit_drink(drink_id, name, quantity) ==
    /\ UNCHANGED <<users, meal_logs, now>>
    /\ IF drink_id \notin DOMAIN drink_types
       THEN /\ response' = Resp(404, NOT_FOUND, 0)
            /\ UNCHANGED <<drink_types, orders>>
       ELSE IF name # drink_id /\ name \in DOMAIN drink_types
       THEN /\ response' = Resp(500, INTEGRITY_ERROR, 0)
            /\ UNCHANGED <<drink_types, orders>>
       ELSE /\ drink_types' =
                  [n \in (DOMAIN drink_types \ {drink_id}) \cup {name} |->
                      IF n = name THEN [available_quantity |-> quantity]
                      ELSE drink_types[n]]
            /\ orders' = [i \in DOMAIN orders |->
                            IF orders[i].drink_type = drink_id
                            THEN [orders[i] EXCEPT !.drink_type = name]
                            ELSE orders[i]]
            /\ response' = Resp(302, "", 0)

\* the names and quantities the catalog requests give
CatalogNames == {"Cola", "cola"}
CatalogQuantities == {-1, 0, 2}

\* the catalog holds InitQuantity Cola, nothing was ordered
InitQuantity == 2

InitCatalog ==
    /\ users = [p \in Persons |-> [NewUser EXCEPT !.drinks_remaining = InitDrinksRemaining]]
    /\ drink_types = [d \in Drinks |-> [available_quantity |-> InitQuantity]]
    /\ orders = << >>
    /\ meal_logs = EmptyBag
    /\ now = 0
    /\ response = NoResponse
    /\ inflight = [w \in Workers |-> Idle]
    /\ conversations = << >>
    /\ reply = NoReply
    /\ completion = NoCompletion
    /\ lookup = NoLookup

NextCatalog ==
    /\ UNCHANGED <<inflight, conversations, reply, completion, lookup>>
    /\ \/ \E n \in CatalogNames \cup {Blank}, q \in CatalogQuantities : add_drink_stock(n, q)
       \/ \E n \in CatalogNames, q \in CatalogQuantities : add_drink(n, q)
       \/ \E d \in CatalogNames, n \in CatalogNames, q \in CatalogQuantities :
             edit_drink(d, n, q)
       \/ \E who \in Persons, n \in CatalogNames, q \in {1, 2} :
             consume_drink(who, n, q, "bar")
       \/ \E o \in OrderIds : approve_order(o)
       \/ \E o \in OrderIds : deny_order(o)

SpecCatalog == InitCatalog /\ [][NextCatalog]_vars

\* drink orders and their approval or denial within one week: the clock
\* stands still, no allowance is reset and the catalog is not edited
NextApprovals ==
    /\ UNCHANGED <<inflight, conversations, reply, completion, lookup>>
    /\ \/ \E r \in DrinkRequests : consume_drink(r[1], r[2], r[3], r[4])
       \/ \E o \in OrderIds : approve_order(o)
       \/ \E o \in OrderIds : deny_order(o)

SpecApprovals == InitCatalog /\ [][NextApprovals]_vars

\* the three consume operations of the API within one day, with malformed
\* requests and names that are not in the registry or the catalog
NextLookup ==
    /\ UNCHANGED <<inflight, conversations, reply, completion, lookup>>
    /\ \/ \E who \in Who : consume_lunch(who)
       \/ \E who \in Who : consume_dinner(who)
       \/ \E r \in DrinkRequests \cup BadDrinkRequests : consume_drink(r[1], r[2], r[3], r[4])

SpecLookup == Init /\ [][NextLookup]_vars

\* ---------------------------------------------------- chatbot handlers
\* conversation ids a request may name; 0 is none
ConversationIds == 0..(MaxConversations + 1)

\* the registry and the ledger are not touched by the chatbot
ChatFrame ==
    UNCHANGED <<users, drink_types, orders, meal_logs, now, response, inflight, lookup>>

\* the name the public handler gives the context assembler
GUEST == "Guest"

\* mutant: the history is built before the user message of the turn is
\* saved
history_before_save(messages) ==
    SelectSeq(SubSeq(messages, 1, Len(messages) - 1), LAMBDA msg : msg.role # "system")

\* the history for the completion function: the conversation's messages in
\* the order of created_at, those of role system left out
history(messages) == SelectSeq(messages, LAMBDA msg : msg.role # "system")

\* the conversation a turn resolved (an existing one at id, or a new one)
\* goes through the exchange and is stored
Turn(id, conversation, users_name, user_message, ai_ok, llm_ok) ==
    LET done     == exchange(conversation, user_message, ai_ok, llm_ok)
        messages == history(Append(conversation.messages,
                                   ChatMessage("user", user_message)))
    IN  /\ Len(conversation.messages) + 2 <= MaxMessages
        /\ completion' = Completion(messages,
                              build_smart_context(users_name, user_message, messages))
        /\ conversations' = IF id \in DOMAIN conversations
                            THEN [conversations EXCEPT ![id] = done.conversation]
                            ELSE Append(conversations, done.conversation)
        /\ reply' = IF done.status = 200
                    THEN Reply(200, "", id, <<ChatMessage("assistant", LLM_REPLY)>>)
                    ELSE Refusal(500, COMPLETION_FAILED)

\* views.py chatbot_send (POST)
chatbot_send(message, conversation_id, session_id, ai_ok, llm_ok) ==
    /\ ChatFrame
    /\ LET user_message == strip(message)
       IN  IF user_message = << >>
           THEN reply' = Refusal(400, MESSAGE_REQUIRED) /\ UNCHANGED <<conversations, completion>>
           ELSE IF conversation_id # 0
           THEN IF conversation_id \notin DOMAIN conversations
                THEN reply' = Refusal(404, CONVERSATION_NOT_FOUND) /\ UNCHANGED <<conversations, completion>>
                ELSE IF SessionMismatch(conversations[conversation_id], session_id)
                THEN reply' = Refusal(403, SESSION_MISMATCH) /\ UNCHANGED <<conversations, completion>>
                ELSE Turn(conversation_id, conversations[conversation_id],
                          GUEST, user_message, ai_ok, llm_ok)
           ELSE /\ Len(conversations) < MaxConversations
                /\ Turn(Len(conversations) + 1, Conversation(NULL, session_id),
                        GUEST, user_message, ai_ok, llm_ok)

\* views.py chatbot_history (GET)
chatbot_history(conversation_id, session_id) ==
    /\ ChatFrame
    /\ UNCHANGED <<conversations, completion>>
    /\ IF conversation_id \notin DOMAIN conversations
       THEN reply' = Refusal(404, CONVERSATION_NOT_FOUND)
       ELSE IF SessionMismatch(conversations[conversation_id], session_id)
       THEN reply' = Refusal(403, SESSION_MISMATCH)
       ELSE reply' = Reply(200, "", conversation_id, conversations[conversation_id].messages)

\* get_object_or_404(Conversation, id=conversation_id, user=request.user)
\* finds a row
OwnConversation(conversation_id, admin) ==
    /\ conversation_id \in DOMAIN conversations
    /\ conversations[conversation_id].user = admin

\* admin_views.py chatbot_conversation (POST); the Http404 of
\* get_object_or_404 is raised inside the try block and answered 500
chatbot_conversation_post(admin, message, conversation_id, ai_ok, llm_ok) ==
    /\ ChatFrame
    /\ LET user_message == strip(message)
       IN  IF user_message = << >>
           THEN reply' = Refusal(400, MESSAGE_EMPTY) /\ UNCHANGED <<conversations, completion>>
           ELSE IF conversation_id # 0
           THEN IF ~OwnConversation(conversation_id, admin)
                THEN reply' = Refusal(500, NO_CONVERSATION_MATCHES) /\ UNCHANGED <<conversations, completion>>
                ELSE Turn(conversation_id, conversations[conversation_id],
                          admin, user_message, ai_ok, llm_ok)
           ELSE /\ Len(conversations) < MaxConversations
                /\ Turn(Len(conversations) + 1, Conversation(admin, NULL),
                        admin, user_message, ai_ok, llm_ok)

\* admin_views.py chatbot_conversation (GET)
chatbot_conversation_get(admin, conversation_id) ==
    /\ ChatFrame
    /\ UNCHANGED <<conversations, completion>>
    /\ IF conversation_id = 0
       THEN reply' = Refusal(400, INVALID_REQUEST)
       ELSE IF ~OwnConversation(conversation_id, admin)
       THEN reply' = Refusal(404, NO_CONVERSATION_MATCHES)
       ELSE reply' = Reply(200, "", conversation_id, conversations[conversation_id].messages)

NextChat ==
    \/ \E m \in Texts, c \in ConversationIds, k \in Sessions \cup {NULL},
          ai_ok \in BOOLEAN, llm_ok \in BOOLEAN : chatbot_send(m, c, k, ai_ok, llm_ok)
    \/ \E c \in ConversationIds \ {0}, k \in Sessions \cup {NULL} : chatbot_history(c, k)
    \/ \E a \in Admins, m \in Texts, c \in ConversationIds,
          ai_ok \in BOOLEAN, llm_ok \in BOOLEAN : chatbot_conversation_post(a, m, c, ai_ok, llm_ok)
    \/ \E a \in Admins, c \in ConversationIds : chatbot_conversation_get(a, c)

SpecChat == Init /\ [][NextChat]_vars

\* ------------------------------------------- classifier and lookup inputs
\* the messages of the turns and of the histories
HOW_IS_JANE    == <<"H", "o", "w", " ", "i", "s", " ", "J", "a", "n", "e", " ", "D", "o", "e", " ", "d", "o", "i", "n", "g", "?">>
TELL_ME_MORE   == <<"t", "e", "l", "l", " ", "m", "e", " ", "m", "o", "r", "e", " ", "a", "b", "o", "u", "t", " ", "t", "h", "e", "m">>
WHAT_ABOUT_HER == <<"w", "h", "a", "t", " ", "a", "b", "o", "u", "t", " ", "h", "e", "r">>
FIND_USER_ZED  == <<"f", "i", "n", "d", " ", "u", "s", "e", "r", " ", "Z", "e", "d", " ", "Q", "u", "u", "x">>
LIST_USERS     == <<"l", "i", "s", "t", " ", "a", "l", "l", " ", "u", "s", "e", "r", "s">>
FIND_IRENE     == <<"f", "i", "n", "d", " ", "I", "r", "e", "n", "e", " ", "T", "i", "n", "k", "a">>
SHOW_SAM       == <<"s", "h", "o", "w", " ", "S", "a", "m", " ", "L", "e">>
HELLO          == <<"h", "e", "l", "l", "o">>
OK             == <<"o", "k">>
THANKS         == <<"t", "h", "a", "n", "k", "s">>
GOOD           == <<"g", "o", "o", "d">>
FINE           == <<"f", "i", "n", "e">>
NICE           == <<"n", "i", "c", "e">>

\* the name queries of the lookups
IRENE_T_TINKA == <<"I", "r", "e", "n", "e", " ", "T", " ", "T", "i", "n", "k", "a">>
IRENE_M_TINKA == <<"I", "r", "e", "n", "e", " ", "M", " ", "T", "i", "n", "k", "a">>
IRENE_TINKA   == <<"i", "r", "e", "n", "e", " ", "t", "i", "n", "k", "a">>
IREN_TINK     == <<"I", "r", "e", "n", " ", "T", "i", "n", "k">>
BLANKS        == <<" ", " ">>
SAM_LE        == <<"S", "a", "m", " ", "L", "e">>
SAM           == <<"s", "a", "m">>
SAM_LEAA      == <<"S", "a", "m", " ", "L", "e", "a", "a">>
ZED           == <<" ", "Z", "e", "d", " ">>

\* the messages a turn may carry and the queries a lookup may carry
Phrases ==
    {HOW_IS_JANE, TELL_ME_MORE, WHAT_ABOUT_HER, FIND_USER_ZED, LIST_USERS, FIND_IRENE,
     SHOW_SAM, HELLO}

Queries ==
    {IRENE_T_TINKA, IRENE_M_TINKA, IRENE_TINKA, IREN_TINK, << >>, BLANKS, SAM_LE, SAM,
     SAM_LEAA, ZED}

\* a turn that was answered: the user message and the reply
Exchange(user_message) ==
    <<ChatMessage("user", user_message), ChatMessage("assistant", LLM_REPLY)>>

\* the conversations a turn may continue: a new one; one that asked about
\* Jane Doe; the same followed by a question about Irene Tinka, by four or
\* by five other exchanges, or by "what about her" and four other exchanges
ABOUT_JANE  == Exchange(HOW_IS_JANE)
FOUR_LATER  == ABOUT_JANE \o Exchange(OK) \o Exchange(THANKS) \o Exchange(GOOD)
                   \o Exchange(FINE)
FIVE_LATER  == FOUR_LATER \o Exchange(NICE)
ASKED_TWICE == ABOUT_JANE \o Exchange(WHAT_ABOUT_HER) \o Exchange(OK) \o Exchange(THANKS)
                   \o Exchange(GOOD) \o Exchange(FINE)
ABOUT_BOTH  == ABOUT_JANE \o Exchange(FIND_IRENE)
Histories   == {<< >>, ABOUT_JANE, ABOUT_BOTH, FOUR_LATER, FIVE_LATER, ASKED_TWICE}

\* the registries: Jane Doe alone; with John Gilmore; with Irene Tinka;
\* with the two Irenes; nobody; Jane Doe and the crowd
Registries ==
    {{"p1"}, Persons, {"p1", "p3"}, {"p1"} \cup Guests, {}, {"p1"} \cup Crowd}

InitClassify ==
    /\ \E registry \in Registries : users = [p \in registry |-> NewUser]
    /\ \E h \in Histories :
          /\ Crowd \subseteq DOMAIN users => h \in {<< >>, ABOUT_JANE}
          /\ conversations = <<[Conversation("a1", NULL) EXCEPT !.messages = h]>>
    /\ drink_types = [d \in Drinks |-> [available_quantity |-> 10]]
    /\ orders = << >>
    /\ meal_logs = EmptyBag
    /\ now = 0
    /\ response = NoResponse
    /\ inflight = [w \in Workers |-> Idle]
    /\ reply = NoReply
    /\ completion = NoCompletion
    /\ lookup = NoLookup

\* a turn of the admin, from the saved user message to the call of the
\* completion function: the history and the context the call is given
build_context(users_name, message) ==
    LET user_message == strip(message)
        messages == history(Append(conversations[1].messages,
                                   ChatMessage("user", user_message)))
    IN  /\ completion' = Completion(messages,
                             build_smart_context(users_name, user_message, messages))
        /\ UNCHANGED <<users, drink_types, orders, meal_logs, now, response, inflight,
                       conversations, reply, lookup>>

\* a call of _search_users_flexible
search_users(name_query) ==
    /\ lookup' = Lookup(name_query, search_users_flexible(name_query))
    /\ UNCHANGED <<users, drink_types, orders, meal_logs, now, response, inflight,
                   conversations, reply, completion>>

NextClassify ==
    \/ \E m \in Phrases : build_context("a1", m)
    \/ \E q \in Queries : search_users(q)

SpecClassify == InitClassify /\ [][NextClassify]_vars

\* ------------------------------------------------- interleaved requests
\* the registry when the two requests arrive: each person has one lunch and
\* one dinner and InitDrinksRemaining drinks left, there are 3 Cola, and
\* two orders of 3 Cola wait for approval (both were accepted, as nothing is
\* deducted at submission); the second order is of either person
InitConc ==
    /\ users = [p \in Persons |->
                  [lunches_remaining |-> 1, dinners_remaining |-> 1,
                   drinks_remaining |-> InitDrinksRemaining,
                   has_friday_lunch |-> FALSE, has_saturday_lunch |-> FALSE,
                   week_start |-> 0]]
    /\ drink_types = [d \in Drinks |-> [available_quantity |-> 3]]
    /\ \E p \in Persons :
          orders = <<DrinkTransaction("p1", "Cola", 3, "bar"),
                     DrinkTransaction(p, "Cola", 3, "bar")>>
    /\ meal_logs = EmptyBag
    /\ now = 0
    /\ response = NoResponse
    /\ inflight = [w \in Workers |-> Idle]
    /\ conversations = << >>
    /\ reply = NoReply
    /\ completion = NoCompletion
    /\ lookup = NoLookup

Finish(w, resp) ==
    /\ inflight' = [inflight EXCEPT ![w].pc = "done"]
    /\ response' = resp

\* consume_lunch / consume_dinner, verify_user_exists: the SELECT that
\* loads the person
MealBegin(w, op, who) ==
    /\ inflight[w].pc = "idle"
    /\ verify_user_exists(who)
    /\ inflight' = [inflight EXCEPT ![w] =
                      [Idle EXCEPT !.pc = "reset", !.op = op, !.who = who,
                                   !.user = users[who]]]
    /\ UNCHANGED <<users, drink_types, orders, meal_logs, now, response>>

\* user.reset_weekly_allowance(): saves the instance when the week is over
MealReset(w) ==
    /\ inflight[w].pc = "reset"
    /\ LET user == reset_weekly_allowance(inflight[w].user, now)
       IN  /\ inflight' = [inflight EXCEPT ![w].pc = "check", ![w].user = user]
           /\ users' = IF user # inflight[w].user
                       THEN [users EXCEPT ![inflight[w].who] = user]
                       ELSE users
    /\ UNCHANGED <<drink_types, orders, meal_logs, now, response>>

\* the checks on the instance in memory, the decrement and user.save()
MealCheckSave(w) ==
    /\ inflight[w].pc = "check"
    /\ LET user   == inflight[w].user
           lunch  == inflight[w].op = "consume_lunch"
           dayerr == IF lunch THEN LunchDayError(user, weekday(now)) ELSE ""
       IN  IF dayerr # ""
           THEN Finish(w, Resp(403, dayerr, 0)) /\ UNCHANGED users
           ELSE IF lunch /\ NoLunchesRemaining(user)
           THEN Finish(w, Resp(400, NO_LUNCHES, 0)) /\ UNCHANGED users
           ELSE IF ~lunch /\ NoDinnersRemaining(user)
           THEN Finish(w, Resp(400, NO_DINNERS, 0)) /\ UNCHANGED users
           ELSE LET saved == IF lunch
                             THEN [user EXCEPT !.lunches_remaining = @ - 1]
                             ELSE [user EXCEPT !.dinners_remaining = @ - 1]
                IN  /\ users' = [users EXCEPT ![inflight[w].who] = saved]
                    /\ inflight' = [inflight EXCEPT ![w].pc = "log", ![w].user = saved]
                    /\ UNCHANGED response
    /\ UNCHANGED <<drink_types, orders, meal_logs, now>>

\* MealLog.objects.create(user=user, meal_type=...) and the 200 response
MealLogInsert(w) ==
    /\ inflight[w].pc = "log"
    /\ inflight[w].op \in {"consume_lunch", "consume_dinner"}
    /\ BagCardinality(meal_logs) < MaxLogs
    /\ meal_logs' = CreateMealLog(meal_logs, inflight[w].who,
                        IF inflight[w].op = "consume_lunch" THEN "lunch" ELSE "dinner")
    /\ Finish(w, Resp(200, "", 0))
    /\ UNCHANGED <<users, drink_types, orders, now>>

\* approve_order: get_object_or_404(DrinkTransaction, id=..., status="pending")
ApproveBegin(w, order_id) ==
    /\ inflight[w].pc = "idle"
    /\ IF ~PendingOrder(order_id)
       THEN Finish(w, Resp(404, NOT_FOUND, 0))
       ELSE /\ inflight' = [inflight EXCEPT ![w] =
                      [Idle EXCEPT !.pc = "fetch_user", !.op = "approve_order",
                                   !.order_id = order_id, !.order = orders[order_id]]]
            /\ UNCHANGED response
    /\ UNCHANGED <<users, drink_types, orders, meal_logs, now>>

\* user = order.user: the SELECT behind the foreign key
ApproveFetchUser(w) ==
    /\ inflight[w].pc = "fetch_user"
    /\ inflight' = [inflight EXCEPT ![w].pc = "fetch_drink",
                                    ![w].user = users[inflight[w].order.user]]
    /\ UNCHANGED <<users, drink_types, orders, meal_logs, now, response>>

\* drink_type = order.drink_type: the SELECT behind the foreign key
ApproveFetchDrink(w) ==
    /\ inflight[w].pc = "fetch_drink"
    /\ inflight' = [inflight EXCEPT ![w].pc = "save_user",
                        ![w].drink_type = drink_types[inflight[w].order.drink_type]]
    /\ UNCHANGED <<users, drink_types, orders, meal_logs, now, response>>

\* both checks on the instances in memory, then user.save()
ApproveSaveUser(w) ==
    /\ inflight[w].pc = "save_user"
    /\ LET r   == inflight[w]
           err == ApprovalError(r.user, r.drink_type, r.order)
       IN  IF err # NoResponse
           THEN Finish(w, err) /\ UNCHANGED users
           ELSE LET saved == [r.user EXCEPT !.drinks_remaining = @ - r.order.quantity]
                IN  /\ users' = [users EXCEPT ![r.order.user] = saved]
                    /\ inflight' = [inflight EXCEPT ![w].pc = "save_drink", ![w].user = saved]
                    /\ UNCHANGED response
    /\ UNCHANGED <<drink_types, orders, meal_logs, now>>

\* drink_type.save()
ApproveSaveDrink(w) ==
    /\ inflight[w].pc = "save_drink"
    /\ LET r     == inflight[w]
           saved == [r.drink_type EXCEPT !.available_quantity = @ - r.order.quantity]
       IN  /\ drink_types' = [drink_types EXCEPT ![r.order.drink_type] = saved]
           /\ inflight' = [inflight EXCEPT ![w].pc = "save_order", ![w].drink_type = saved]
    /\ UNCHANGED <<users, orders, meal_logs, now, response>>

\* order.save() with status approved and approved_at set
ApproveSaveOrder(w) ==
    /\ inflight[w].pc = "save_order"
    /\ inflight[w].op = "approve_order"
    /\ LET r     == inflight[w]
           saved == [r.order EXCEPT !.status = "approved", !.approved_at = STAMP]
       IN  /\ orders' = [orders EXCEPT ![r.order_id] = saved]
           /\ inflight' = [inflight EXCEPT ![w].pc = "log", ![w].order = saved]
    /\ UNCHANGED <<users, drink_types, meal_logs, now, response>>

\* MealLog.objects.create(user=user, meal_type="drink", ...) and the redirect
ApproveLogInsert(w) ==
    /\ inflight[w].pc = "log"
    /\ inflight[w].op = "approve_order"
    /\ BagCardinality(meal_logs) < MaxLogs
    /\ meal_logs' = CreateMealLog(meal_logs, inflight[w].order.user, "drink")
    /\ Finish(w, Resp(302, "", 0))
    /\ UNCHANGED <<users, drink_types, orders, now>>

NextConc ==
    /\ UNCHANGED <<conversations, reply, completion, lookup>>
    /\ \/ \E w \in Workers, who \in Persons : MealBegin(w, "consume_lunch", who)
       \/ \E w \in Workers, who \in Persons : MealBegin(w, "consume_dinner", who)
       \/ \E w \in Workers : MealReset(w)
       \/ \E w \in Workers : MealCheckSave(w)
       \/ \E w \in Workers : MealLogInsert(w)
       \/ \E w \in Workers, o \in OrderIds : ApproveBegin(w, o)
       \/ \E w \in Workers : ApproveFetchUser(w)
       \/ \E w \in Workers : ApproveFetchDrink(w)
       \/ \E w \in Workers : ApproveSaveUser(w)
       \/ \E w \in Workers : ApproveSaveDrink(w)
       \/ \E w \in Workers : ApproveSaveOrder(w)
       \/ \E w \in Workers : ApproveLogInsert(w)

SpecConc == InitConc /\ [][NextConc]_vars

\* deny_order: get_object_or_404(DrinkTransaction, id=..., status="pending")
DenyBegin(w, order_id) ==
    /\ inflight[w].pc = "idle"
    /\ IF ~PendingOrder(order_id)
       THEN Finish(w, Resp(404, NOT_FOUND, 0))
       ELSE /\ inflight' = [inflight EXCEPT ![w] =
                      [Idle EXCEPT !.pc = "save_order", !.op = "deny_order",
                                   !.order_id = order_id, !.order = orders[order_id]]]
            /\ UNCHANGED response
    /\ UNCHANGED <<users, drink_types, orders, meal_logs, now>>

\* deny_order: order.save() with status denied and approved_at set, and the
\* redirect
DenySaveOrder(w) ==
    /\ inflight[w].pc = "save_order"
    /\ inflight[w].op = "deny_order"
    /\ orders' = [orders EXCEPT ![inflight[w].order_id] =
                     [inflight[w].order EXCEPT !.status = "denied",
                                               !.approved_at = STAMP]]
    /\ Finish(w, Resp(302, "", 0))
    /\ UNCHANGED <<users, drink_types, meal_logs, now>>

\* the registry when two admins decide on the same order: one order of one
\* Cola of p1 waits for approval
InitRace ==
    /\ users = [p \in Persons |-> [NewUser EXCEPT !.drinks_remaining = InitDrinksRemaining]]
    /\ drink_types = [d \in Drinks |-> [available_quantity |-> InitQuantity]]
    /\ orders = <<DrinkTransaction("p1", "Cola", 1, "bar")>>
    /\ meal_logs = EmptyBag
    /\ now = 0
    /\ response = NoResponse
    /\ inflight = [w \in Workers |-> Idle]
    /\ conversations = << >>
    /\ reply = NoReply
    /\ completion = NoCompletion
    /\ lookup = NoLookup

NextRace ==
    /\ UNCHANGED <<conversations, reply, completion, lookup>>
    /\ \/ \E w \in Workers, o \in OrderIds : ApproveBegin(w, o)
       \/ \E w \in Workers : ApproveFetchUser(w)
       \/ \E w \in Workers : ApproveFetchDrink(w)
       \/ \E w \in Workers : ApproveSaveUser(w)
       \/ \E w \in Workers : ApproveSaveDrink(w)
       \/ \E w \in Workers : ApproveSaveOrder(w)
       \/ \E w \in Workers : ApproveLogInsert(w)
       \/ \E w \in Workers, o \in OrderIds : DenyBegin(w, o)
       \/ \E w \in Workers : DenySaveOrder(w)

SpecRace == InitRace /\ [][NextRace]_vars

\* ================================================================== claims

\* what approve_order compares at approval time, for a pending order o
OrderUser(o)  == users[orders[o].user]
OrderDrink(o) == drink_types[orders[o].drink_type]
ResetDue(p)   == now - users[p].week_start > RESET_DAYS

\* C1: after any sequence of consume operations (lunch, dinner, drink
\* submission, approval, denial, lazy resets in between) every person's
\* three counters lie within [0, weekly default] (3, 3 and 15).
C1_CountersInRange ==
    \A p \in Persons :
        /\ users[p].lunches_remaining \in 0..WEEKLY_LUNCHES
        /\ users[p].dinners_remaining \in 0..WEEKLY_DINNERS
        /\ users[p].drinks_remaining  \in 0..WEEKLY_DRINKS

\* a lunch was refused to a person whose lunches are used up
C1_Witness ==
    /\ response = Resp(400, NO_LUNCHES, 0)
    /\ \E p \in Persons : users[p].lunches_remaining = 0

\* MealLog rows of one kind of a person; how much of the orders of a person,
\* and of a drink, has been approved
Served(p, kind) == CopiesIn([user |-> p, meal_type |-> kind], meal_logs)

RECURSIVE ApprovedQuantity(_, _)
ApprovedQuantity(ids, n) ==
    IF n = 0 THEN 0
    ELSE ApprovedQuantity(ids, n - 1)
         + (IF n \in ids /\ orders[n].status = "approved" THEN orders[n].quantity ELSE 0)

ApprovedFor(p) ==
    ApprovedQuantity({i \in DOMAIN orders : orders[i].user = p}, Len(orders))

ApprovedOf(d) ==
    ApprovedQuantity({i \in DOMAIN orders : orders[i].drink_type = d}, Len(orders))

\* C2 (as stated): when two requests for the same person or drink run
\* interleaved, the check and the decrement act as one unit, so the two
\* never both pass the check and both draw on a counter that covers only
\* one of them: no person is served more lunches or dinners than the one
\* they had left, no person has more drinks approved than they had left,
\* and no more of a drink is approved than was in stock.
C2_NoOverdraw ==
    /\ \A p \in Persons :
          /\ Served(p, "lunch") <= 1
          /\ Served(p, "dinner") <= 1
          /\ ApprovedFor(p) <= InitDrinksRemaining
    /\ \A d \in Drinks : ApprovedOf(d) <= 3

\* C3: an order only moves pending -> approved or pending -> denied, no row
\* is removed, and approve_order / deny_order on an order that is not
\* pending answers 404 and changes no order, counter, stock or log.
C3_TerminalStates ==
    [][/\ Len(orders') >= Len(orders)
       /\ \A o \in DOMAIN orders :
            /\ orders'[o] # orders[o] =>
                  /\ orders[o].status = "pending"
                  /\ orders'[o].status \in {"approved", "denied"}
            /\ (orders[o].status # "pending" /\ (approve_order(o) \/ deny_order(o))) =>
                  /\ response' = Resp(404, NOT_FOUND, 0)
                  /\ UNCHANGED <<users, drink_types, orders, meal_logs>>]_vars

\* a request was answered 404 while every order in the table is resolved
C3_Witness ==
    /\ response = Resp(404, NOT_FOUND, 0)
    /\ Len(orders) = MaxOrders
    /\ \E o \in DOMAIN orders : orders[o].status = "approved"
    /\ \E o \in DOMAIN orders : orders[o].status = "denied"

\* C4: approve_order on a pending order whose person's drinks_remaining or
\* whose drink's stock is below the order's quantity answers 400 naming the
\* failed constraint (the allowance first) with the amount left, and leaves
\* the order pending with approved_at null, and users, stock and log as
\* they were.
C4_Revalidation ==
    [][\A o \in OrderIds :
          (/\ PendingOrder(o)
           /\ approve_order(o)
           /\ \/ OrderUser(o).drinks_remaining < orders[o].quantity
              \/ OrderDrink(o).available_quantity < orders[o].quantity) =>
             /\ response' =
                  IF OrderUser(o).drinks_remaining < orders[o].quantity
                  THEN Resp(400, USER_ONLY_HAS, OrderUser(o).drinks_remaining)
                  ELSE Resp(400, ONLY_AVAILABLE, OrderDrink(o).available_quantity)
             /\ orders'[o].status = "pending"
             /\ orders'[o].approved_at = NULL
             /\ UNCHANGED <<users, drink_types, orders, meal_logs>>]_vars

\* an approval failed on the stock while the person's allowance sufficed
C4_Witness ==
    /\ response.error = ONLY_AVAILABLE
    /\ \E o \in DOMAIN orders :
          /\ orders[o].status = "pending"
          /\ orders[o].approved_at = NULL
          /\ OrderDrink(o).available_quantity < orders[o].quantity
          /\ OrderUser(o).drinks_remaining >= orders[o].quantity

\* a step that is a successful submit: one row was added to the orders
Submitted == Len(orders') = Len(orders) + 1

\* C5 (as stated): a successful consume_drink creates exactly one pending
\* order and changes no person's drinks_remaining and no drink's stock.
C5_SubmitChangesNothing ==
    [][Submitted =>
          /\ orders'[Len(orders')].status = "pending"
          /\ SubSeq(orders', 1, Len(orders)) = orders
          /\ \A p \in Persons : users'[p].drinks_remaining = users[p].drinks_remaining
          /\ drink_types' = drink_types]_vars

\* C5 (amended): a successful consume_drink creates exactly one pending order
\* (approved_at null), leaves the stock, the log and every other person
\* alone and never decrements the requester's counters: the requester's row
\* is unchanged unless the lazy weekly reset is due, and then the three
\* counters are set to the weekly defaults and week_start to now.
C5_SubmitNeverDeducts ==
    [][Submitted =>
          LET new == orders'[Len(orders')]
              p   == new.user
          IN  /\ new.status = "pending"
              /\ new.approved_at = NULL
              /\ new.quantity >= 1
              /\ SubSeq(orders', 1, Len(orders)) = orders
              /\ UNCHANGED <<drink_types, meal_logs>>
              /\ \A other \in Persons \ {p} : users'[other] = users[other]
              /\ response' = Resp(202, "", 0)
              /\ IF ResetDue(p)
                 THEN users'[p] = [users[p] EXCEPT
                                      !.lunches_remaining = WEEKLY_LUNCHES,
                                      !.dinners_remaining = WEEKLY_DINNERS,
                                      !.drinks_remaining  = WEEKLY_DRINKS,
                                      !.week_start        = now]
                 ELSE users'[p] = users[p]]_vars

\* a submit was accepted in the request that also reset the person's week
C5_Witness ==
    /\ response = Resp(202, "", 0)
    /\ Len(orders) >= 1
    /\ orders[Len(orders)].status = "pending"
    /\ now > 0
    /\ users[orders[Len(orders)].user].week_start = now
    /\ users[orders[Len(orders)].user].drinks_remaining = WEEKLY_DRINKS

\* C6: approve_order on a pending order of quantity q that passes both
\* checks answers with the redirect and marks the order approved; the step
\* that approves an order deducts exactly q from the person's
\* drinks_remaining and from the drink's stock, changes nothing else of the
\* users and drinks, stamps approved_at and adds exactly one drink MealLog
\* of that person.
C6_ApproveEffects ==
    [][/\ \A o \in OrderIds :
            (/\ PendingOrder(o)
             /\ approve_order(o)
             /\ OrderUser(o).drinks_remaining >= orders[o].quantity
             /\ OrderDrink(o).available_quantity >= orders[o].quantity) =>
               orders'[o].status = "approved"
       /\ \A o \in DOMAIN orders :
            (orders[o].status = "pending" /\ orders'[o].status = "approved") =>
               LET q == orders[o].quantity
                   p == orders[o].user
                   d == orders[o].drink_type
               IN  /\ users' = [users EXCEPT ![p].drinks_remaining =
                                                 users[p].drinks_remaining - q]
                   /\ drink_types' = [drink_types EXCEPT ![d].available_quantity =
                                                 drink_types[d].available_quantity - q]
                   /\ orders'[o].approved_at # NULL
                   /\ orders' = [orders EXCEPT ![o].status = "approved",
                                               ![o].approved_at = orders'[o].approved_at]
                   /\ meal_logs' = meal_logs (+) SetToBag({[user |-> p, meal_type |-> "drink"]})
                   /\ response' = Resp(302, "", 0)]_vars

\* the end-to-end example: 2 of 10 Cola approved for a person who had 5
C6_Witness ==
    /\ response = Resp(302, "", 0)
    /\ \E o \in DOMAIN orders :
          /\ orders[o].status = "approved"
          /\ orders[o].quantity = 2
          /\ OrderUser(o).drinks_remaining = 3
          /\ OrderDrink(o).available_quantity = 8
          /\ BagCardinality(meal_logs) = 1

\* C7: deny_order on a pending order marks it denied with approved_at set;
\* the step that denies an order changes no counter, no stock and no log.
C7_DenyFrame ==
    [][/\ \A o \in OrderIds :
            (PendingOrder(o) /\ deny_order(o)) => orders'[o].status = "denied"
       /\ \A o \in DOMAIN orders :
            (orders[o].status = "pending" /\ orders'[o].status = "denied") =>
               /\ orders'[o].approved_at # NULL
               /\ orders' = [orders EXCEPT ![o].status = "denied",
                                           ![o].approved_at = orders'[o].approved_at]
               /\ UNCHANGED <<users, drink_types, meal_logs>>
               /\ response' = Resp(302, "", 0)]_vars

\* an order was denied and nobody's allowance, no stock and no log moved
C7_Witness ==
    /\ response = Resp(302, "", 0)
    /\ \E o \in DOMAIN orders : orders[o].status = "denied" /\ orders[o].approved_at # NULL
    /\ \A o \in DOMAIN orders : orders[o].status = "denied"
    /\ meal_logs = EmptyBag

\* C8 (as stated): for a person with both day flags and lunches left,
\* consume_lunch succeeds on Friday and on Saturday and is refused on every
\* other day with the error naming Friday and Saturday.
C8_BothFlags ==
    [][\A p \in Persons :
          (/\ users[p].has_friday_lunch /\ users[p].has_saturday_lunch
           /\ users[p].lunches_remaining > 0
           /\ consume_lunch(p)) =>
             IF weekday(now) \in {FRIDAY, SATURDAY}
             THEN response' = Resp(200, "", 0)
             ELSE response' = Resp(403, ONLY_FRIDAY_AND_SATURDAY, 0)]_vars

\* C9: for a person with exactly one day flag and lunches left,
\* consume_lunch succeeds (one lunch deducted, one lunch MealLog) exactly on
\* the flagged day; on any other day it answers 403 naming that day, adds
\* no MealLog and lowers no counter.
C9_SingleFlag ==
    [][\A p \in Persons :
          LET u   == users[p]
              day == IF u.has_friday_lunch THEN FRIDAY ELSE SATURDAY
              had == IF ResetDue(p) THEN WEEKLY_LUNCHES ELSE u.lunches_remaining
          IN  (/\ u.has_friday_lunch # u.has_saturday_lunch
               /\ u.lunches_remaining > 0
               /\ consume_lunch(p)) =>
                 IF weekday(now) = day
                 THEN /\ response' = Resp(200, "", 0)
                      /\ users'[p].lunches_remaining = had - 1
                      /\ meal_logs' = meal_logs (+) SetToBag({[user |-> p, meal_type |-> "lunch"]})
                 ELSE /\ response' = Resp(403, IF u.has_friday_lunch THEN ONLY_FRIDAY
                                                ELSE ONLY_SATURDAY, 0)
                      /\ meal_logs' = meal_logs
                      /\ users'[p].lunches_remaining >= u.lunches_remaining
                      /\ users'[p].dinners_remaining >= u.dinners_remaining
                      /\ users'[p].drinks_remaining  >= u.drinks_remaining]_vars

\* a Saturday-only person was refused on another day, the error naming Saturday
C9_Witness ==
    /\ response = Resp(403, ONLY_SATURDAY, 0)
    /\ weekday(now) # SATURDAY
    /\ \E p \in Persons : users[p].has_saturday_lunch /\ ~users[p].has_friday_lunch
                          /\ users[p].lunches_remaining > 0

\* C10: a person with neither day flag and lunches left is served lunch on
\* every weekday: consume_lunch answers 200, never 403.
C10_NoFlags ==
    [][\A p \in Persons :
          (/\ ~users[p].has_friday_lunch /\ ~users[p].has_saturday_lunch
           /\ users[p].lunches_remaining > 0
           /\ consume_lunch(p)) =>
             /\ response' = Resp(200, "", 0)
             /\ users'[p].lunches_remaining >= 0]_vars

\* a person without day flags had lunch on a day that is neither Friday nor
\* Saturday
C10_Witness ==
    /\ response = Resp(200, "", 0)
    /\ weekday(now) \notin {FRIDAY, SATURDAY}
    /\ \E p \in Persons :
          /\ ~users[p].has_friday_lunch /\ ~users[p].has_saturday_lunch
          /\ BagToSet(meal_logs) = {[user |-> p, meal_type |-> "lunch"]}

\* the consume requests of a registered person p handled by a step
ConsumesDrink(p) == \E r \in DrinkRequests : r[1] = p /\ consume_drink(r[1], r[2], r[3], r[4])
Consumes(p) == consume_lunch(p) \/ consume_dinner(p) \/ ConsumesDrink(p)

\* the row of p after a consume step whose reset step ran: reset or not,
\* then the decrement of the meal that was served
AfterReset(p) ==
    LET served == response'.status = 200
        base   == IF ResetDue(p)
                  THEN [users[p] EXCEPT !.lunches_remaining = WEEKLY_LUNCHES,
                                        !.dinners_remaining = WEEKLY_DINNERS,
                                        !.drinks_remaining  = WEEKLY_DRINKS,
                                        !.week_start        = now]
                  ELSE users[p]
    IN  [base EXCEPT
           !.lunches_remaining = @ - (IF served /\ consume_lunch(p) THEN 1 ELSE 0),
           !.dinners_remaining = @ - (IF served /\ consume_dinner(p) THEN 1 ELSE 0)]

AllowanceErrors == {NO_LUNCHES, NO_DINNERS, INSUFFICIENT_ALLOWANCE}

\* C11 (as stated): every consume operation of a registered person first
\* runs the lazy reset: when now - week_start > 7 days the three counters
\* are at their weekly defaults (less the meal served) and week_start is
\* now after the step, and the allowance check saw the reset counters;
\* otherwise the reset step changes nothing.
C11_ResetFirst ==
    [][\A p \in Persons : Consumes(p) =>
          /\ users'[p] = AfterReset(p)
          /\ ResetDue(p) => response'.error \notin AllowanceErrors]_vars

\* C11 (amended): the same for every consume operation that reaches the
\* reset step; a drink request refused for insufficient stock returns
\* before the reset step and leaves the person's row as it was, reset due
\* or not.
C11_ResetBeforeChecks ==
    [][\A p \in Persons : Consumes(p) =>
          IF response'.error = INSUFFICIENT_STOCK
          THEN users'[p] = users[p]
          ELSE /\ users'[p] = AfterReset(p)
               /\ ResetDue(p) => response'.error \notin AllowanceErrors]_vars

\* C11 witness: a lunch was served on a day on which the reset ran
C11_Witness ==
    /\ now > RESET_DAYS
    /\ response.status = 200
    /\ \E p \in Persons : /\ users[p].week_start = now
                          /\ users[p].lunches_remaining = WEEKLY_LUNCHES - 1
                          /\ users[p].dinners_remaining = WEEKLY_DINNERS
                          /\ users[p].drinks_remaining = WEEKLY_DRINKS

\* what may happen to a row between two calls of reset_weekly_allowance:
\* a lunch or not, a dinner or not, a drink approved or not
Between(u) ==
    {[u EXCEPT !.lunches_remaining = @ - l, !.dinners_remaining = @ - d,
               !.drinks_remaining = @ - k] :
        l \in {0, 1}, d \in {0, 1}, k \in {0, 1}}

\* C12 (as stated): after a call of reset_weekly_allowance (made now, on
\* the row of any person), a second call made 7 days later or less changes
\* no counter and not week_start, whatever was consumed in between.
C12_SecondCallWithinSevenDays ==
    \A p \in Persons : \A dt \in 0..RESET_DAYS :
        \A u \in Between(reset_weekly_allowance(users[p], now)) :
            reset_weekly_allowance(u, now + dt) = u

\* C12 (amended): a second call made 7 days or less after the week_start
\* that the first call left (the time of the first call when it reset, the
\* older week_start when it did not) changes no counter and not
\* week_start, whatever was consumed in between.
C12_SecondCallWithinWindow ==
    \A p \in Persons : \A dt \in 0..(2 * RESET_DAYS) :
        \A u \in Between(reset_weekly_allowance(users[p], now)) :
            now + dt - u.week_start <= RESET_DAYS
                => reset_weekly_allowance(u, now + dt) = u

\* C12 witness: on the day of a reset a person was served a lunch and then
\* a dinner, so the dinner request called reset_weekly_allowance again, in
\* the window and after a decrement
C12_Witness ==
    \E p \in Persons : /\ users[p].week_start = now
                       /\ now > RESET_DAYS
                       /\ users[p].lunches_remaining = WEEKLY_LUNCHES - 1
                       /\ users[p].dinners_remaining = WEEKLY_DINNERS - 1

ResetRow(u) ==
    [u EXCEPT !.lunches_remaining = WEEKLY_LUNCHES,
              !.dinners_remaining = WEEKLY_DINNERS,
              !.drinks_remaining  = WEEKLY_DRINKS,
              !.week_start        = now]

\* no MealLog row is changed or deleted by the step
LogOnlyGrows == \A e \in BagToSet(meal_logs) : CopiesIn(e, meal_logs') >= CopiesIn(e, meal_logs)

\* C14 (as stated): a successful consume_lunch / consume_dinner takes
\* exactly 1 from the relevant counter of the person as it was before the
\* request, leaves the other two counters as they were, and adds exactly
\* one MealLog of that kind for that person; no step of the normal flow
\* changes or deletes a MealLog.
C14_DecrementOnly ==
    [][/\ LogOnlyGrows
       /\ \A p \in Persons :
          /\ (consume_lunch(p) /\ response'.status = 200)
             => /\ users' = [users EXCEPT ![p].lunches_remaining = @ - 1]
                /\ meal_logs' = meal_logs (+) SetToBag({[user |-> p, meal_type |-> "lunch"]})
          /\ (consume_dinner(p) /\ response'.status = 200)
             => /\ users' = [users EXCEPT ![p].dinners_remaining = @ - 1]
                /\ meal_logs' = meal_logs (+) SetToBag({[user |-> p, meal_type |-> "dinner"]})]_vars

\* C14 (amended): the same, counted from the person's row after the reset
\* step: when the weekly reset is due the served meal leaves the relevant
\* counter at its weekly default less 1 and the other two at their weekly
\* defaults, with week_start now; when it is not due, the relevant counter
\* loses exactly 1 and nothing else of the row changes.
C14_DecrementAfterReset ==
    [][/\ LogOnlyGrows
       /\ \A p \in Persons :
          LET base == IF ResetDue(p) THEN ResetRow(users[p]) ELSE users[p]
          IN  /\ (consume_lunch(p) /\ response'.status = 200)
                 => /\ users' = [users EXCEPT ![p] =
                                    [base EXCEPT !.lunches_remaining = @ - 1]]
                    /\ meal_logs' = meal_logs (+) SetToBag({[user |-> p, meal_type |-> "lunch"]})
              /\ (consume_dinner(p) /\ response'.status = 200)
                 => /\ users' = [users EXCEPT ![p] =
                                    [base EXCEPT !.dinners_remaining = @ - 1]]
                    /\ meal_logs' = meal_logs (+) SetToBag({[user |-> p, meal_type |-> "dinner"]})]_vars

\* C14 witness: a person who had a dinner in the old week is served a lunch
\* on the day of the reset
C14_Witness ==
    /\ response.status = 200
    /\ now > RESET_DAYS
    /\ \E p \in Persons : /\ users[p].week_start = now
                          /\ users[p].lunches_remaining = WEEKLY_LUNCHES - 1
                          /\ users[p].dinners_remaining = WEEKLY_DINNERS
                          /\ CopiesIn([user |-> p, meal_type |-> "lunch"], meal_logs) = 1
                          /\ CopiesIn([user |-> p, meal_type |-> "dinner"], meal_logs) = 1

\* C15: a drink request creates an order only if its quantity is at least
\* 1, the drink's stock covers it and the person's drinks_remaining (after
\* the reset step) covers it, and then the order is pending with that
\* quantity; a request that fails one of these creates no order and is
\* answered 400, reporting the stock on a stock shortfall and the remaining
\* allowance on an allowance shortfall.
C15_SubmitGuards ==
    [][\A r \in DrinkRequests \cup BadDrinkRequests :
          consume_drink(r[1], r[2], r[3], r[4]) =>
          LET who == r[1]  drink == r[2]  q == r[3]
              wellformed == who # Blank /\ drink # Blank /\ r[4] # Blank
              found == who \in DOMAIN users /\ drink \in DOMAIN drink_types
          IN  /\ orders' # orders =>
                    /\ q >= 1 /\ found
                    /\ drink_types[drink].available_quantity >= q
                    /\ users'[who].drinks_remaining >= q
                    /\ orders' = Append(orders, [user |-> who, drink_type |-> drink,
                                      quantity |-> q, serving_point |-> r[4],
                                      status |-> "pending", approved_at |-> NULL])
                    /\ response'.status = 202
              /\ (wellformed /\ q < 1) =>
                    orders' = orders /\ response'.status = 400
              /\ (wellformed /\ q >= 1 /\ found
                    /\ drink_types[drink].available_quantity < q) =>
                    /\ orders' = orders
                    /\ response' = Resp(400, INSUFFICIENT_STOCK,
                                        drink_types[drink].available_quantity)
              /\ (wellformed /\ q >= 1 /\ found
                    /\ drink_types[drink].available_quantity >= q
                    /\ users'[who].drinks_remaining < q) =>
                    /\ orders' = orders
                    /\ response' = Resp(400, INSUFFICIENT_ALLOWANCE,
                                        users'[who].drinks_remaining)]_vars

\* C15 witness: a request was refused for the allowance, which is reported,
\* while an earlier request had been accepted
C15_Witness ==
    /\ response.error = INSUFFICIENT_ALLOWANCE
    /\ \E p \in Persons : users[p].drinks_remaining = response.amount
    /\ Len(orders) >= 1
    /\ \A i \in DOMAIN orders : orders[i].quantity >= 1

\* C16: a lunch, dinner or drink request naming a person who is not in the
\* registry, and a drink request naming a drink that is not in the
\* catalog, is answered 404, where a request with a missing field is
\* answered 400; it changes no row of the registry or the catalog, creates
\* no order and no MealLog, and adds no person to the registry.
C16_NotFound ==
    [][/\ \A who \in Who :
            (consume_lunch(who) \/ consume_dinner(who)) =>
               /\ who = Blank => response'.status = 400
               /\ (who # Blank /\ who \notin DOMAIN users) =>
                     /\ response' = Resp(404, NOT_IN_REGISTRY, 0)
                     /\ UNCHANGED <<users, drink_types, orders, meal_logs>>
       /\ \A r \in DrinkRequests \cup BadDrinkRequests :
            consume_drink(r[1], r[2], r[3], r[4]) =>
               /\ (r[1] = Blank \/ r[2] = Blank \/ r[4] = Blank \/ r[3] < 1)
                     => response'.status = 400
               /\ (/\ r[1] # Blank /\ r[2] # Blank /\ r[4] # Blank /\ r[3] >= 1
                   /\ (r[1] \notin DOMAIN users \/ r[2] \notin DOMAIN drink_types)) =>
                     /\ response'.status = 404
                     /\ response'.error = IF r[1] \notin DOMAIN users
                                          THEN NOT_IN_REGISTRY ELSE "Drink type not found"
                     /\ UNCHANGED <<users, drink_types, orders, meal_logs>>
       /\ DOMAIN users' = DOMAIN users]_vars

\* C16 witness: a request naming an unknown person was answered 404 after
\* meals had been served, and the registry holds no one else
C16_Witness ==
    /\ response = Resp(404, NOT_IN_REGISTRY, 0)
    /\ BagCardinality(meal_logs) >= 1
    /\ DOMAIN users = Persons

\* ----------------------------------------------------------- the chatbot
\* the conversation a turn works on and the id it has afterwards
TurnId(c) == IF c = 0 THEN Len(conversations) + 1 ELSE c
TurnConversation(c, user, session_id) ==
    IF c = 0 THEN Conversation(user, session_id) ELSE conversations[c]

\* the step stored at id the conversation old with one more user message,
\* the same title and no assistant message, and touched nothing else
FailedTurn(id, old, text) ==
    /\ Len(conversations') = (IF id > Len(conversations) THEN id ELSE Len(conversations))
    /\ conversations'[id] = [old EXCEPT
           !.messages = Append(@, [role |-> "user", content |-> text])]
    /\ \A j \in DOMAIN conversations : j # id => conversations'[j] = conversations[j]

\* C17: when the completion call of a turn fails, the turn is answered 500,
\* the user message of the turn is stored (as the last message of the
\* conversation, which stays stored when the turn created it), no assistant
\* message is stored for the turn, the title is as before and no other
\* conversation is touched.
C17_FailureKeepsUserMessage ==
    [][reply'.status = 500 =>
        /\ \A m \in Texts, c \in ConversationIds, k \in Sessions \cup {NULL}, llm_ok \in BOOLEAN :
              chatbot_send(m, c, k, FALSE, llm_ok) =>
                 /\ reply' = Refusal(500, COMPLETION_FAILED)
                 /\ FailedTurn(TurnId(c), TurnConversation(c, NULL, k), strip(m))
        /\ \A a \in Admins, m \in Texts, c \in ConversationIds, llm_ok \in BOOLEAN :
              (/\ chatbot_conversation_post(a, m, c, FALSE, llm_ok)
               /\ (c = 0 \/ OwnConversation(c, a))) =>
                 /\ reply' = Refusal(500, COMPLETION_FAILED)
                 /\ FailedTurn(TurnId(c), TurnConversation(c, a, NULL), strip(m))]_vars

\* C17 witness: the first turn of a new conversation failed: the
\* conversation is stored with the user message alone and the default title
C17_Witness ==
    /\ reply = Refusal(500, COMPLETION_FAILED)
    /\ \E i \in DOMAIN conversations :
          /\ conversations[i].messages = <<[role |-> "user", content |-> <<"h", "i">>]>>
          /\ conversations[i].title = DEFAULT_TITLE

\* a request of the public API with session key k, or of admin a, that does
\* not own conversation c
NotOwnerSession(c, k) ==
    \/ conversations[c].user # NULL
    \/ conversations[c].session_id # NULL /\ conversations[c].session_id # k

NotOwnerAdmin(c, a) == conversations[c].user # a

\* the step answered with a client error, stored nothing and returned no
\* message
Rejected ==
    /\ reply'.status \in 400..499
    /\ reply'.messages = << >>
    /\ conversations' = conversations

\* C18 (as stated): every turn and every history read on an existing
\* conversation by a request whose session key or admin identity is not the
\* one stored on the conversation, a request without session key included,
\* is rejected with a client error, stores no message and returns none.
C18_OwnershipEnforced ==
    [][\A c \in DOMAIN conversations :
          /\ \A k \in Sessions \cup {NULL} : NotOwnerSession(c, k) =>
                /\ chatbot_history(c, k) => Rejected
                /\ \A m \in Texts \ {<< >>, <<" ", "\t">>}, ai_ok \in BOOLEAN, llm_ok \in BOOLEAN :
                      chatbot_send(m, c, k, ai_ok, llm_ok) => Rejected
          /\ \A a \in Admins : NotOwnerAdmin(c, a) =>
                /\ chatbot_conversation_get(a, c) => Rejected
                /\ \A m \in Texts \ {<< >>, <<" ", "\t">>}, ai_ok \in BOOLEAN, llm_ok \in BOOLEAN :
                      chatbot_conversation_post(a, m, c, ai_ok, llm_ok) => Rejected]_vars

\* the conversation holds an assistant message
HasReply(conversation) ==
    \E j \in DOMAIN conversation.messages : conversation.messages[j].role = "assistant"

\* C19 (as stated): every conversation that holds an assistant reply has a
\* generated title; a step gives a conversation a title exactly when the
\* conversation holds two messages after the reply of the step is stored,
\* and no other step changes a title.
C19_TitleAfterFirstExchange ==
    /\ [](\A i \in DOMAIN conversations :
             HasReply(conversations[i]) => conversations[i].title # DEFAULT_TITLE)
    /\ [][\A i \in DOMAIN conversations' :
             LET before == IF i \in DOMAIN conversations THEN conversations[i]
                           ELSE Conversation(NULL, NULL)
                 after  == conversations'[i]
                 replied == /\ Len(after.messages) = Len(before.messages) + 2
                            /\ after.messages[Len(after.messages)].role = "assistant"
             IN  after.title # before.title <=> (replied /\ Len(after.messages) = 2)]_vars

\* a text with nothing but white space in it
BlankText(m) == \A i \in DOMAIN m : m[i] \in Whitespace

\* C20: a turn whose message text is empty or only white space is answered
\* 400 with the validation error, whatever conversation and session it
\* names and whatever the provider would do: no conversation is created and
\* no message is stored.
C20_EmptyMessageRejected ==
    [][\A m \in Texts : BlankText(m) =>
          /\ \A c \in ConversationIds, k \in Sessions \cup {NULL},
                ai_ok \in BOOLEAN, llm_ok \in BOOLEAN :
                chatbot_send(m, c, k, ai_ok, llm_ok) =>
                   /\ reply' = Refusal(400, MESSAGE_REQUIRED)
                   /\ conversations' = conversations
          /\ \A a \in Admins, c \in ConversationIds, ai_ok \in BOOLEAN, llm_ok \in BOOLEAN :
                chatbot_conversation_post(a, m, c, ai_ok, llm_ok) =>
                   /\ reply' = Refusal(400, MESSAGE_EMPTY)
                   /\ conversations' = conversations]_vars

\* C20 witness: an empty turn was refused on a conversation that exists
C20_Witness ==
    /\ reply \in {Refusal(400, MESSAGE_REQUIRED), Refusal(400, MESSAGE_EMPTY)}
    /\ Len(conversations) = 1
    /\ Len(conversations[1].messages) = 2

\* --------------------------------------------- claims: the chat classifier
\* the text of the turn the completion function was called for, and the
\* messages of the conversation before it
C21_Asked == completion.messages[Len(completion.messages)].content

C21_Earlier == SubSeq(completion.messages, 1, Len(completion.messages) - 1)

\* the earlier user messages, the newest first, without those that are the
\* text of the current turn; at most five of them
C21_Scanned ==
    LET n            == Len(C21_Earlier)
        newest_first == [i \in 1..n |-> C21_Earlier[n + 1 - i]]
        of_user      == SelectSeq(newest_first,
                            LAMBDA msg : msg.role = "user" /\ msg.content # C21_Asked)
    IN  [i \in 1..(IF Len(of_user) < 5 THEN Len(of_user) ELSE 5) |-> of_user[i].content]

\* the current turn names nobody of the registry, follows earlier messages
\* and refers back with a pronoun or a cue phrase
C21_RefersBack ==
    /\ completion # NoCompletion
    /\ C21_Earlier # << >>
    /\ named_intent(C21_Asked).matched_user_ids = << >>
    /\ any_in(followup_cues, lower(C21_Asked))

C22_BoundedReclassification ==
    LET intent == completion.context.intent
    IN  /\ intent.reclassified <= LOOKBACK
        /\ intent.depth <= 1
        /\ intent.depth = 1 <=> intent.reclassified > 0

\* C22 witness: a follow-up for which five earlier user messages were
\* classified again
C22_Witness ==
    /\ completion # NoCompletion
    /\ completion.context.intent.reclassified = LOOKBACK
    /\ completion.context.intent.depth = 1

C24_Parts == split(strip(lookup.name_query))

\* the people of the registry whose first name contains first and whose last
\* name contains last, ignoring case
C24_Containing(first, last) ==
    {p \in DOMAIN users : /\ contains(lower(first_name[p]), lower(first))
                          /\ contains(lower(last_name[p]), lower(last))}

\* the people of the registry whose first name is first and whose last name
\* is last, ignoring case
C24_Named(first, last) ==
    {p \in DOMAIN users : /\ lower(first_name[p]) = lower(first)
                          /\ lower(last_name[p]) = lower(last)}

C24_Found == {lookup.users[i] : i \in DOMAIN lookup.users}

\* C24: a lookup of three or more tokens uses its first and its last token
\* only: it returns the people whose first name contains the first token and
\* whose last name contains the last token (LOOKUP_LIMIT of them when there
\* are more); for "Irene T Tinka" and a registry with Irene Tinka as its only
\* Irene that is exactly Irene Tinka.
C24_FirstAndLastToken ==
    Len(C24_Parts) >= 3 =>
        LET containing == C24_Containing(C24_Parts[1], C24_Parts[Len(C24_Parts)])
        IN  /\ C24_Found \subseteq containing
            /\ Cardinality(containing) <= LOOKUP_LIMIT => C24_Found = containing
            /\ Cardinality(containing) > LOOKUP_LIMIT => Len(lookup.users) = LOOKUP_LIMIT
            /\ (lookup.name_query = IRENE_T_TINKA /\ DOMAIN users = {"p1", "p3"})
                   => lookup.users = <<"p3">>

\* C24 witness: "Irene M Tinka" found Irene Tinka, whose names do not
\* contain the middle token
C24_Witness ==
    /\ lookup.name_query = IRENE_M_TINKA
    /\ DOMAIN users = {"p1", "p3"}
    /\ lookup.users = <<"p3">>

\* C25: a lookup returns at most LOOKUP_LIMIT people and nobody for an empty
\* or blank query; the people returned satisfy the strategy that produced
\* them: for one token either name contains it; for two tokens they are the
\* exact matches when there is one, and otherwise match by containment; for
\* three or more tokens they match the first and last token by containment.
C25_LookupResult ==
    LET parts == C24_Parts
        first == parts[1]
        last  == parts[Len(parts)]
    IN  /\ Len(lookup.users) <= LOOKUP_LIMIT
        /\ Cardinality(C24_Found) = Len(lookup.users)
        /\ C24_Found \subseteq DOMAIN users
        /\ (\A i \in DOMAIN lookup.name_query : lookup.name_query[i] = " ")
               => lookup.users = << >>
        /\ Len(parts) = 1
               => \A p \in C24_Found : \/ contains(lower(first_name[p]), lower(first))
                                       \/ contains(lower(last_name[p]), lower(first))
        /\ Len(parts) = 2
               => IF C24_Named(first, last) # {}
                  THEN C24_Found \subseteq C24_Named(first, last)
                  ELSE C24_Found \subseteq C24_Containing(first, last)
        /\ Len(parts) >= 3 => C24_Found \subseteq C24_Containing(first, last)

\* C25 witness: "Sam Le" found LOOKUP_LIMIT people of a larger crowd
C25_Witness ==
    /\ lookup.name_query = SAM_LE
    /\ Crowd \subseteq DOMAIN users
    /\ Len(lookup.users) = LOOKUP_LIMIT
    /\ Cardinality(C24_Containing(C24_Parts[1], C24_Parts[2])) > LOOKUP_LIMIT

\* --------------------------------------------- claims: the drink catalog
\* C26: no two entries of the drink catalog have names that are equal when
\* case is ignored, after any run of add_drink_stock, add_drink and
\* edit_drink.
C26_NamesUniqueIgnoringCase ==
    \A a \in DOMAIN drink_types, b \in DOMAIN drink_types :
        lowered[a] = lowered[b] => a = b

\* C27: the available quantity of every catalog entry is at least 0 in every
\* state reached through add_drink_stock, add_drink, edit_drink,
\* consume_drink, approve_order and deny_order.
C27_StockNeverNegative ==
    \A d \in DOMAIN drink_types : drink_types[d].available_quantity >= 0

\* C28: while only drink orders are submitted, approved and denied and no
\* weekly reset happens, what left the stock of a drink is the sum of the
\* quantities of its approved orders, what left a person's drink allowance
\* is the sum of the quantities of that person's approved orders, and there
\* are as many drink records as approved orders.
C28_Conservation ==
    /\ \A d \in DOMAIN drink_types :
          InitQuantity - drink_types[d].available_quantity = ApprovedOf(d)
    /\ \A p \in Persons :
          InitDrinksRemaining - users[p].drinks_remaining = ApprovedFor(p)
    /\ \A log \in BagToSet(meal_logs) : log.meal_type = "drink"
    /\ BagCardinality(meal_logs)
          = Cardinality({i \in DOMAIN orders : orders[i].status = "approved"})

\* C28 witness: one order was approved and another one denied
C28_Witness ==
    /\ \E i \in DOMAIN orders : orders[i].status = "approved"
    /\ \E i \in DOMAIN orders : orders[i].status = "denied"
    /\ \E d \in DOMAIN drink_types : drink_types[d].available_quantity < InitQuantity

\* --------------------------------------- claims: decisions on one order
\* what was taken off the allowance of the order's person and off the stock
\* of its drink
C29_OffAllowance == InitDrinksRemaining - users[orders[1].user].drinks_remaining

C29_OffStock == InitQuantity - drink_types[orders[1].drink_type].available_quantity

\* C29: when two approvals, or an approval and a denial, of the same pending
\* order are interleaved, the order's quantity is taken off the allowance
\* and off the stock at most once, there is at most one drink record for the
\* order, and once both requests are answered the status is that of the one
\* request that won: approved with the deduction and the record made once,
\* or denied with nothing deducted and no record.
C29_DecidedOnce ==
    /\ C29_OffAllowance <= orders[1].quantity
    /\ C29_OffStock <= orders[1].quantity
    /\ BagCardinality(meal_logs) <= 1
    /\ (\A w \in Workers : inflight[w].pc \in {"idle", "done"})
          => /\ orders[1].status = "approved"
                   => /\ C29_OffAllowance = orders[1].quantity
                      /\ C29_OffStock = orders[1].quantity
                      /\ BagCardinality(meal_logs) = 1
             /\ orders[1].status # "approved"
                   => /\ C29_OffAllowance = 0
                      /\ C29_OffStock = 0
                      /\ BagCardinality(meal_logs) = 0

\* --------------------------------------------- claims: the order of a turn
\* the stored messages of every conversation: each assistant message comes
\* right after a user message and there are no more assistant than user
\* messages; the history of the last completion call has no system message
C30_Stored ==
    /\ \A c \in DOMAIN conversations :
          LET messages == conversations[c].messages
          IN  /\ \A i \in DOMAIN messages :
                    messages[i].role = "assistant"
                        => i > 1 /\ messages[i - 1].role = "user"
              /\ Cardinality({i \in DOMAIN messages : messages[i].role = "assistant"})
                    <= Cardinality({i \in DOMAIN messages : messages[i].role = "user"})
    /\ \A i \in DOMAIN completion.messages : completion.messages[i].role # "system"

\* a request that stores messages stores, in one conversation, the user
\* message of the turn and at most the assistant message right after it, and
\* the history handed to the completion call is that conversation up to and
\* including this user message
C30_Turn ==
    conversations' # conversations =>
        \E c \in DOMAIN conversations' :
            LET new == conversations'[c].messages
                old == IF c \in DOMAIN conversations THEN conversations[c].messages
                       ELSE << >>
                n   == Len(old) + 1
            IN  /\ \A d \in DOMAIN conversations : d # c => conversations'[d] = conversations[d]
                /\ Len(new) \in {n, n + 1}
                /\ SubSeq(new, 1, Len(old)) = old
                /\ new[n].role = "user"
                /\ Len(new) = n + 1 => new[n + 1].role = "assistant"
                /\ completion'.messages = SubSeq(new, 1, n)
                /\ completion'.messages[Len(completion'.messages)] = new[n]

\* C30: in every conversation each assistant message is immediately preceded
\* by the user message of its turn, so there are never more assistant than
\* user messages; the history handed to the completion function contains no
\* system message and ends with the user message of the current turn.
C30_TurnOrder == []C30_Stored /\ [][C30_Turn]_vars

\* C30 witness: the second turn of a conversation was answered; the history
\* of its completion call is the first exchange and the second user message
C30_Witness ==
    \E c \in DOMAIN conversations :
        /\ Len(conversations[c].messages) = 4
        /\ reply.status = 200
        /\ completion.messages = SubSeq(conversations[c].messages, 1, 3)
        /\ completion.messages[3].role = "user"

====
